---- MODULE Spec2Model ----
(***************************************************************************)
(* Stack Dash (games/stack_dash): the round state machine of Game, the     *)
(* actor kinematics of Player and the level, collision resolver and        *)
(* gap/bridge subsystem of Level.                                          *)
(*                                                                         *)
(* Numbers.  The program computes positions and velocities in Python       *)
(* floats.  Every value it can produce is a multiple of 1/80 pixel: the    *)
(* base speed 5 * (1 - tile_count / 40) is a multiple of 1/8, the speed    *)
(* boost (times 1.5) makes it a multiple of 1/16, gravity is 4/5, the jump *)
(* boost gives -19.5 and the fall epsilon is 1/10.  The model keeps x, y,  *)
(* vel_x, vel_y and the platform coordinates as integers counted in units  *)
(* of 1/80 pixel (exact rational arithmetic; the rounding error of the     *)
(* binary floats is not modelled).  pygame.Rect truncates its arguments    *)
(* to integers: rectangles are in whole pixels, obtained with Trunc.       *)
(***************************************************************************)
EXTENDS Integers, Sequences, FiniteSets, TLC

\* ------------------------------------------------------------ numbers

\* Units per pixel: lcm of the denominators 16, 5 and 10.
Unit == 16 * 5

px(n) == n * Unit

Abs(n) == IF n < 0 THEN -n ELSE n

Min2(a, b) == IF a <= b THEN a ELSE b

Max2(a, b) == IF a >= b THEN a ELSE b

\* int(float) of pygame.Rect's arguments: truncation toward zero, to pixels.
Trunc(u) == IF u >= 0 THEN u \div Unit ELSE -((-u) \div Unit)

\* ---------------------------------------------------------- constants

SCREEN_WIDTH == 800

SCREEN_HEIGHT == 600

level_width == 5000

ground_height == SCREEN_HEIGHT - 50

\* Player.__init__
player_width == 40

player_height == 60

speed == 5

jump_power == -15

gravity == (4 * Unit) \div 5

max_tiles == 20

jump_safety_frames == 10

powerup_frames == 300

fall_velocity == 15

\* Level.check_collision: the epsilon that starts a fall (0.1 px per frame)
fall_epsilon == Unit \div 10

\* Game.update / Level.check_gap: thresholds 2.0 and 0.5 px per frame
gap_vel_y == 2 * Unit

gap_vel_x == Unit \div 2

start_frames == 180

\* ------------------------------------------------------------- rects

\* pygame.Rect(x, y, w, h) built from values in units; w and h in pixels.
Rect(xu, yu, w, h) == [x |-> Trunc(xu), y |-> Trunc(yu), w |-> w, h |-> h]

\* pygame.Rect.colliderect for rectangles of positive size.
colliderect(a, b) ==
    /\ a.x < b.x + b.w
    /\ a.y < b.y + b.h
    /\ a.x + a.w > b.x
    /\ a.y + a.h > b.y

\* Platform(x, y, width, height): x, y in units, width and height in pixels.
Platform(xu, yu, w, h) == [x |-> xu, y |-> yu, width |-> w, height |-> h]

Platform_get_rect(pl) == Rect(pl.x, pl.y, pl.width, pl.height)

Player_get_rect(p) ==
    Rect(p.x - px(player_width \div 2), p.y - px(player_height \div 2),
         player_width, player_height)

\* ------------------------------------------------------------ Player

\* Player(x, y): x and y in pixels.
NewPlayer(x0, y0) ==
    [x |-> px(x0), y |-> px(y0), vel_x |-> 0, vel_y |-> 0,
     on_ground |-> TRUE, jump_safety |-> 0, tile_count |-> 0,
     speed_boost |-> FALSE, speed_boost_timer |-> 0,
     jump_boost |-> FALSE, jump_boost_timer |-> 0,
     tile_magnet |-> FALSE, tile_magnet_timer |-> 0]

\* jump_strength of two thirds of jump_power.
jump_strength_weak(p) == (px(jump_power) * 2) \div 3

\* jump_strength: jump_power, times 1.3 with the jump boost (-19.5).
jump_strength(p) ==
    IF p.jump_boost THEN (px(jump_power) * 13) \div 10 ELSE px(jump_power)

\* Player.jump without the test of on_ground.
jump_anywhere(p) ==
    [p EXCEPT !.vel_y = jump_strength(p),
              !.on_ground = FALSE,
              !.y = p.y - px(2),
              !.jump_safety = jump_safety_frames]

\* Player.jump: the new player; it jumped iff p.on_ground.
jump(p) ==
    IF p.on_ground
    THEN [p EXCEPT !.vel_y = jump_strength(p),
                   !.on_ground = FALSE,
                   !.y = p.y - px(2),
                   !.jump_safety = jump_safety_frames]
    ELSE p

\* base_speed that divides by max_tiles: no speed left with 20 tiles.
base_speed_steep(p) ==
    LET b == (px(speed) * (max_tiles - p.tile_count)) \div max_tiles
    IN  IF p.speed_boost THEN (b * 3) \div 2 ELSE b

\* base_speed of Player.update: speed * (1 - tile_count / (max_tiles * 2)),
\* times 1.5 with the speed boost.
base_speed(p) ==
    LET b == (px(speed) * (max_tiles * 2 - p.tile_count)) \div (max_tiles * 2)
    IN  IF p.speed_boost THEN (b * 3) \div 2 ELSE b

\* The power-up timers of Player.update.
tick_timers(p) ==
    LET sb == p.speed_boost_timer - 1
        jb == p.jump_boost_timer - 1
        tm == p.tile_magnet_timer - 1
        p1 == IF p.speed_boost
              THEN [p EXCEPT !.speed_boost_timer = sb,
                             !.speed_boost = ~(sb <= 0)]
              ELSE p
        p2 == IF p1.jump_boost
              THEN [p1 EXCEPT !.jump_boost_timer = jb,
                              !.jump_boost = ~(jb <= 0)]
              ELSE p1
    IN  IF p2.tile_magnet
        THEN [p2 EXCEPT !.tile_magnet_timer = tm,
                        !.tile_magnet = ~(tm <= 0)]
        ELSE p2

\* Player.update without the continuous jump input.
Player_update_nojump(p, k) ==
    LET b  == base_speed(p)
        vx == IF k.right THEN b ELSE IF k.left THEN -b ELSE 0
        p1 == [p EXCEPT !.vel_x = vx]
        p2 == IF ~p1.on_ground
              THEN [p1 EXCEPT !.vel_y = p1.vel_y + gravity] ELSE p1
        p4 == [p2 EXCEPT !.x = p2.x + p2.vel_x, !.y = p2.y + p2.vel_y]
        p5 == IF p4.jump_safety > 0
              THEN [p4 EXCEPT !.jump_safety = p4.jump_safety - 1] ELSE p4
    IN  tick_timers(p5)

\* Player.update with the pressed keys k = [left, right, jump].
Player_update(p, k) ==
    LET b  == base_speed(p)
        vx == IF k.right THEN b ELSE IF k.left THEN -b ELSE 0
        p1 == [p EXCEPT !.vel_x = vx]
        p2 == IF ~p1.on_ground
              THEN [p1 EXCEPT !.vel_y = p1.vel_y + gravity] ELSE p1
        p3 == IF k.jump /\ p2.on_ground THEN jump(p2) ELSE p2
        p4 == [p3 EXCEPT !.x = p3.x + p3.vel_x, !.y = p3.y + p3.vel_y]
        p5 == IF p4.jump_safety > 0
              THEN [p4 EXCEPT !.jump_safety = p4.jump_safety - 1] ELSE p4
    IN  tick_timers(p5)

\* Player.add_tile without the cap of max_tiles.
add_tile_nocap(p) == [p EXCEPT !.tile_count = p.tile_count + 1]

add_tile(p) ==
    IF p.tile_count < max_tiles
    THEN [p EXCEPT !.tile_count = p.tile_count + 1] ELSE p

\* Player.remove_tile that takes two tiles from the stack.
remove_tile_two(p) ==
    [p EXCEPT !.tile_count = Max2(0, p.tile_count - 2)]

remove_tile(p) ==
    IF p.tile_count > 0
    THEN [p EXCEPT !.tile_count = p.tile_count - 1] ELSE p

fall(p) == [p EXCEPT !.vel_y = px(fall_velocity)]

\* Player.activate_speed_boost that adds a window to the time left.
activate_speed_boost_more(p) ==
    [p EXCEPT !.speed_boost = TRUE,
              !.speed_boost_timer = p.speed_boost_timer + powerup_frames]

activate_speed_boost(p) ==
    [p EXCEPT !.speed_boost = TRUE, !.speed_boost_timer = powerup_frames]

activate_jump_boost(p) ==
    [p EXCEPT !.jump_boost = TRUE, !.jump_boost_timer = powerup_frames]

activate_tile_magnet(p) ==
    [p EXCEPT !.tile_magnet = TRUE, !.tile_magnet_timer = powerup_frames]

\* ------------------------------------------------------------- Level

\* Tile(x, y) and PowerUp(x, y, type): x, y in pixels.
Tile(x0, y0) == [x |-> x0, y |-> y0, collected |-> FALSE]

PowerUp(x0, y0, t) == [x |-> x0, y |-> y0, type |-> t, collected |-> FALSE]

tile_width == 30

tile_height == 10

powerup_radius == 15

\* Tile.get_rect after Tile.update moved the tile by the hover offset hov
\* (units): y = original_y + sin(hover_offset) * hover_range.
Tile_get_rect(t, hov) ==
    Rect(px(t.x) - px(tile_width \div 2),
         px(t.y) + hov - px(tile_height \div 2), tile_width, tile_height)

PowerUp_get_rect(u) ==
    Rect(px(u.x - powerup_radius), px(u.y - powerup_radius),
         powerup_radius * 2, powerup_radius * 2)

\* The finish line placed past the end of the ground platform.
finish_line_beyond ==
    [x |-> level_width + 300, y |-> ground_height - 200,
     width |-> 20, height |-> 200]

\* FinishLine(level_width - 300, ground_height - 200, 200), of width 20.
finish_line ==
    [x |-> level_width - 300, y |-> ground_height - 200,
     width |-> 20, height |-> 200]

FinishLine_get_rect ==
    Rect(px(finish_line.x), px(finish_line.y),
         finish_line.width, finish_line.height)

\* The first of the indices S in list order, 0 when there is none: the
\* element at which a for loop returns.
FirstIndex(S) ==
    IF S = {} THEN 0 ELSE CHOOSE i \in S : \A j \in S : i <= j

\* Level.check_tile_collection that returns the last tile overlapped.
check_tile_collection_last(p, tls, hov) ==
    LET Hit(t) == ~t.collected
                  /\ colliderect(Player_get_rect(p), Tile_get_rect(t, hov))
        S == {i \in 1..Len(tls) : Hit(tls[i])}
    IN  IF S = {} THEN 0 ELSE CHOOSE i \in S : \A j \in S : i >= j

\* Level.check_tile_collection: the index of the tile collected, or 0.
check_tile_collection(p, tls, hov) ==
    LET Hit(t) == ~t.collected
                  /\ colliderect(Player_get_rect(p), Tile_get_rect(t, hov))
    IN  FirstIndex({i \in 1..Len(tls) : Hit(tls[i])})

\* Level.check_powerup_collision: the index of the power-up collected, or 0.
check_powerup_collision(p, pus) ==
    LET Hit(u) == ~u.collected
                  /\ colliderect(Player_get_rect(p), PowerUp_get_rect(u))
    IN  FirstIndex({i \in 1..Len(pus) : Hit(pus[i])})

\* The ray of Level.check_gap: Rect(x - 5, y, 10, 100).
ray_rect(p) == Rect(p.x - px(5), p.y, 10, 100)

\* Level.check_gap without the test of the horizontal speed.
check_gap_still(p, plats) ==
    IF p.jump_safety > 0 THEN FALSE
    ELSE IF p.vel_y > gap_vel_y /\ ~p.on_ground
         THEN \A i \in 1..Len(plats) :
                  ~colliderect(ray_rect(p), Platform_get_rect(plats[i]))
         ELSE FALSE

\* Level.check_gap with a probe of 10 px.
check_gap_short(p, plats) ==
    IF p.jump_safety > 0 THEN FALSE
    ELSE IF p.vel_y > gap_vel_y /\ ~p.on_ground /\ Abs(p.vel_x) > gap_vel_x
         THEN \A i \in 1..Len(plats) :
                  ~colliderect(Rect(p.x - px(5), p.y, 10, 10),
                               Platform_get_rect(plats[i]))
         ELSE FALSE

\* Level.check_gap without the test of jump_safety.
check_gap_unsafe(p, plats) ==
    IF p.vel_y > gap_vel_y /\ ~p.on_ground /\ Abs(p.vel_x) > gap_vel_x
    THEN \A i \in 1..Len(plats) :
             ~colliderect(ray_rect(p), Platform_get_rect(plats[i]))
    ELSE FALSE

\* Level.check_gap
check_gap(p, plats) ==
    IF p.jump_safety > 0 THEN FALSE
    ELSE IF p.vel_y > gap_vel_y /\ ~p.on_ground /\ Abs(p.vel_x) > gap_vel_x
         THEN \A i \in 1..Len(plats) :
                  ~colliderect(ray_rect(p), Platform_get_rect(plats[i]))
         ELSE FALSE

bridge_width == 40

bridge_height == 10

\* Level.build_bridge that puts the bridge at the head of the list.
build_bridge_first(plats, xu, yu) ==
    <<Platform(xu - px(20), yu + px(20), bridge_width, bridge_height)>>
        \o plats

\* Level.build_bridge with the platform's corner at (x, y) itself.
build_bridge_centre(plats, xu, yu) ==
    Append(plats, Platform(xu, yu, bridge_width, bridge_height))

\* Level.build_bridge(x, y): Platform(x - 20, y + 20, 40, 10) appended.
build_bridge(plats, xu, yu) ==
    Append(plats,
           Platform(xu - px(20), yu + px(20), bridge_width, bridge_height))

\* Level.check_finish_line
check_finish_line(p) == colliderect(Player_get_rect(p), FinishLine_get_rect)

\* The test of the ground pass of Level.check_collision (lines 492-495).
ground_test(p, pl) ==
    /\ Abs(2 * p.x - (2 * pl.x + px(pl.width))) < px(pl.width) + px(player_width)
    /\ 2 * p.y + px(player_height) >= 2 * (pl.y - px(5))
    /\ 2 * p.y + px(player_height) <= 2 * (pl.y + px(10))
    /\ p.vel_y >= 0

\* Landing on a platform (lines 497-500).
land_on(p, pl) ==
    [p EXCEPT !.y = pl.y - px(player_height) \div 2,
              !.vel_y = 0,
              !.on_ground = TRUE]

\* The collision from the left that stops 1 px short of the side.
collide_left_short(p, pl) ==
    [p EXCEPT !.x = pl.x - px(player_width) \div 2 + px(1), !.vel_x = 0]

\* The collision from the left (lines 524-527): the player is put against
\* the left side of the platform.
collide_left(p, pl) ==
    [p EXCEPT !.x = pl.x - px(player_width) \div 2, !.vel_x = 0]

\* One platform of the general pass with a collision from above that does
\* not look at the sign of vel_y.
resolve_one_unsigned(p, rect, pl) ==
    IF ~colliderect(rect, Platform_get_rect(pl))
    THEN [p |-> p, side |-> "none"]
    ELSE
      LET hw == px(player_width) \div 2
          hh == px(player_height) \div 2
          left_overlap   == (pl.x + px(pl.width)) - (p.x - hw)
          right_overlap  == (p.x + hw) - pl.x
          top_overlap    == (pl.y + px(pl.height)) - (p.y - hh)
          bottom_overlap == (p.y + hh) - pl.y
          min_overlap == Min2(Min2(left_overlap, right_overlap),
                              Min2(top_overlap, bottom_overlap))
      IN  IF min_overlap = bottom_overlap /\ p.vel_y < 0
          THEN [p |-> [p EXCEPT !.y = pl.y + px(pl.height) + hh, !.vel_y = 0],
                side |-> "below"]
          ELSE IF min_overlap = left_overlap /\ p.vel_x > 0
          THEN [p |-> collide_left(p, pl), side |-> "left"]
          ELSE IF min_overlap = right_overlap /\ p.vel_x < 0
          THEN [p |-> [p EXCEPT !.x = pl.x + px(pl.width) + hw, !.vel_x = 0],
                side |-> "right"]
          ELSE IF min_overlap = top_overlap
          THEN [p |-> [p EXCEPT !.y = pl.y - hh, !.vel_y = 0,
                                !.on_ground = TRUE],
                side |-> "above"]
          ELSE [p |-> p, side |-> "none"]

\* One platform of the general pass (lines 505-536); rect is the player's
\* rectangle taken when check_collision was entered.  The result is the
\* player and the side resolved ("none" when nothing was applied).
resolve_one(p, rect, pl) ==
    IF ~colliderect(rect, Platform_get_rect(pl))
    THEN [p |-> p, side |-> "none"]
    ELSE
      LET hw == px(player_width) \div 2
          hh == px(player_height) \div 2
          left_overlap   == (pl.x + px(pl.width)) - (p.x - hw)
          right_overlap  == (p.x + hw) - pl.x
          top_overlap    == (pl.y + px(pl.height)) - (p.y - hh)
          bottom_overlap == (p.y + hh) - pl.y
          min_overlap == Min2(Min2(left_overlap, right_overlap),
                              Min2(top_overlap, bottom_overlap))
      IN  IF min_overlap = bottom_overlap /\ p.vel_y < 0
          THEN [p |-> [p EXCEPT !.y = pl.y + px(pl.height) + hh, !.vel_y = 0],
                side |-> "below"]
          ELSE IF min_overlap = left_overlap /\ p.vel_x > 0
          THEN [p |-> collide_left(p, pl), side |-> "left"]
          ELSE IF min_overlap = right_overlap /\ p.vel_x < 0
          THEN [p |-> [p EXCEPT !.x = pl.x + px(pl.width) + hw, !.vel_x = 0],
                side |-> "right"]
          ELSE IF min_overlap = top_overlap /\ p.vel_y > 0
          THEN [p |-> [p EXCEPT !.y = pl.y - hh, !.vel_y = 0,
                                !.on_ground = TRUE],
                side |-> "above"]
          ELSE [p |-> p, side |-> "none"]

\* The general pass from platform i on; res collects <<index, side>> of the
\* resolutions applied, in order.
RECURSIVE resolve_from(_, _, _, _, _)
resolve_from(p, rect, plats, i, res) ==
    IF i > Len(plats) THEN [p |-> p, res |-> res]
    ELSE LET r == resolve_one(p, rect, plats[i])
         IN  resolve_from(r.p, rect, plats, i + 1,
                          IF r.side = "none" THEN res
                          ELSE Append(res, <<i, r.side>>))

\* Level.check_collision that runs the general pass after a landing too.
check_collision_through(p, plats) ==
    LET was_on_ground == p.on_ground
        rect == Player_get_rect(p)
        p0 == [p EXCEPT !.on_ground = FALSE]
        g == FirstIndex({i \in 1..Len(plats) : ground_test(p0, plats[i])})
        l == IF g # 0 THEN land_on(p0, plats[g]) ELSE p0
        r == resolve_from(l, rect, plats, 1, <<>>)
        q == IF was_on_ground /\ ~r.p.on_ground /\ r.p.vel_y = 0
             THEN [r.p EXCEPT !.vel_y = fall_epsilon] ELSE r.p
    IN  [p |-> q, snap |-> g, res |-> r.res]

\* Level.check_collision with a ground pass that lands the player on the
\* last platform that qualifies.
check_collision_last(p, plats) ==
    LET was_on_ground == p.on_ground
        rect == Player_get_rect(p)
        p0 == [p EXCEPT !.on_ground = FALSE]
        Q == {i \in 1..Len(plats) : ground_test(p0, plats[i])}
        g == IF Q = {} THEN 0 ELSE CHOOSE i \in Q : \A j \in Q : i >= j
    IN  IF g # 0
        THEN [p |-> land_on(p0, plats[g]), snap |-> g, res |-> <<>>]
        ELSE LET r == resolve_from(p0, rect, plats, 1, <<>>)
                 q == IF was_on_ground /\ ~r.p.on_ground /\ r.p.vel_y = 0
                      THEN [r.p EXCEPT !.vel_y = fall_epsilon] ELSE r.p
             IN  [p |-> q, snap |-> 0, res |-> r.res]

\* Level.check_collision that does not start the fall.
check_collision_noeps(p, plats) ==
    LET rect == Player_get_rect(p)
        p0 == [p EXCEPT !.on_ground = FALSE]
        g == FirstIndex({i \in 1..Len(plats) : ground_test(p0, plats[i])})
    IN  IF g # 0
        THEN [p |-> land_on(p0, plats[g]), snap |-> g, res |-> <<>>]
        ELSE LET r == resolve_from(p0, rect, plats, 1, <<>>)
             IN  [p |-> r.p, snap |-> 0, res |-> r.res]

\* Level.check_collision: the player after the call, the index of the
\* platform the ground pass landed on (0: none) and the resolutions of the
\* general pass.
check_collision(p, plats) ==
    LET was_on_ground == p.on_ground
        rect == Player_get_rect(p)
        p0 == [p EXCEPT !.on_ground = FALSE]
        g == FirstIndex({i \in 1..Len(plats) : ground_test(p0, plats[i])})
    IN  IF g # 0
        THEN [p |-> land_on(p0, plats[g]), snap |-> g, res |-> <<>>]
        ELSE LET r == resolve_from(p0, rect, plats, 1, <<>>)
                 q == IF was_on_ground /\ ~r.p.on_ground /\ r.p.vel_y = 0
                      THEN [r.p EXCEPT !.vel_y = fall_epsilon] ELSE r.p
             IN  [p |-> q, snap |-> 0, res |-> r.res]

\* ------------------------------------------------- Level._generate_level

platform_width == 300

\* A platform as thick as the actor is tall.
platform_height_thick == player_height

platform_height == 20

\* The k-th value of a cyclic stream of random draws.
At(s, k) == s[((k - 1) % Len(s)) + 1]

\* Level._add_tiles_on_platform: n tiles on the platform at (x0, y0); the
\* j-th tile of the level takes the j-th draws of c.tx (30..270) and c.ty
\* (30..60).
RECURSIVE add_tiles(_, _, _, _, _)
add_tiles(tls, x0, y0, n, c) ==
    IF n = 0 THEN tls
    ELSE LET j == Len(tls) + 1
         IN  add_tiles(Append(tls, Tile(x0 + At(c.tx, j), y0 - At(c.ty, j))),
                       x0, y0, n - 1, c)

\* The while loop of Level._generate_level (lines 312-334) from cursor x0
\* with the current gap_width; k counts the platforms.  c holds the random
\* draws: c.h (100..200) heights, c.n (2..5) tile counts, c.pu power-ups
\* ("none": random() >= 0.3, else the type chosen), c.px (50..250) their
\* offsets, c.g (80..150) gap widths.
RECURSIVE generate_from(_, _, _, _, _)
generate_from(x0, gap_width, k, c, lv) ==
    IF ~(x0 < level_width - 500) THEN lv
    ELSE
      LET platform_y == ground_height - At(c.h, k)
          plats == Append(lv.platforms,
                          Platform(px(x0), px(platform_y),
                                   platform_width, platform_height))
          tls == add_tiles(lv.tiles, x0, platform_y, At(c.n, k), c)
          pus == IF At(c.pu, k) = "none" THEN lv.power_ups
                 ELSE Append(lv.power_ups,
                             PowerUp(x0 + At(c.px, k), platform_y - 30,
                                     At(c.pu, k)))
      IN  generate_from(x0 + platform_width + gap_width, At(c.g, k), k + 1, c,
                        [platforms |-> plats, tiles |-> tls,
                         power_ups |-> pus])

\* Level._generate_level with the first platform at x = 400.
generate_level_near(c) ==
    generate_from(400, 100, 1, c,
                  [platforms |-> <<Platform(0, px(ground_height),
                                            level_width, 50)>>,
                   tiles |-> <<>>, power_ups |-> <<>>])

\* Level._generate_level: the ground platform, then the loop from x = 500
\* with gap_width = 100.
generate_level(c) ==
    generate_from(500, 100, 1, c,
                  [platforms |-> <<Platform(0, px(ground_height),
                                            level_width, 50)>>,
                   tiles |-> <<>>, power_ups |-> <<>>])

\* sin(hover_offset) in units, frame by frame, of a tile with hover_speed
\* 0.04 (one of uniform(0.02, 0.05)): round(80 * sin(0.04 * t)), t = 1..157,
\* one period.
hover_sine ==
    <<3, 6, 10, 13, 16, 19, 22, 25, 28, 31, 34, 37, 40, 42, 45, 48, 50,
       53, 55, 57, 60, 62, 64, 66, 67, 69, 71, 72, 73, 75, 76, 77, 77,
       78, 79, 79, 80, 80, 80, 80, 80, 80, 79, 79, 78, 77, 76, 75, 74,
       73, 71, 70, 68, 67, 65, 63, 61, 59, 56, 54, 52, 49, 47, 44, 41,
       38, 36, 33, 30, 27, 24, 21, 18, 14, 11, 8, 5, 2, -1, -5, -8, -11,
       -14, -17, -20, -24, -27, -30, -33, -35, -38, -41, -44, -46, -49,
       -51, -54, -56, -58, -61, -63, -65, -66, -68, -70, -71, -73, -74,
       -75, -76, -77, -78, -79, -79, -79, -80, -80, -80, -80, -80, -79,
       -79, -78, -78, -77, -76, -75, -73, -72, -71, -69, -67, -66, -64,
       -62, -60, -58, -55, -53, -51, -48, -45, -43, -40, -37, -34, -31,
       -28, -25, -22, -19, -16, -13, -10, -7, -3, 0>>

\* Tile.update: the offset sin(hover_offset) * hover_range of frame t, for
\* the hover_range r (pixels, one of uniform(3, 6)).
hover_at(r, t) == r * At(hover_sine, t)

\* -------------------------------------------------------------- Game

STATE_STARTING == "starting"

STATE_PLAYING == "playing"

STATE_PAUSED == "paused"

STATE_GAME_OVER == "game_over"

STATE_LEVEL_COMPLETE == "level_complete"

VARIABLES
    state,        \* Game.state
    state_timer,  \* Game.state_timer
    score,        \* Game.score
    timer,        \* Game.timer, in frames
    high_score,   \* Game.high_score
    player,       \* Game.player
    platforms,    \* Level.platforms: the ground, the generated ones, bridges
    tiles,        \* Level.tiles
    power_ups,    \* Level.power_ups
    hover,        \* Tile.hover_range of the tiles of the level (pixels)
    ev,           \* what the last PLAYING frame did (history)
    input,        \* the person at the keyboard (environment)
    maze          \* the Maze of ghost_chase, NoMaze before its first round

vars == <<state, state_timer, score, timer, high_score, player, platforms,
          tiles, power_ups, hover, ev, input, maze>>

\* The pressed keys read by Player.update: jump is SPACE, UP or W.
AllKeys == [left : BOOLEAN, right : BOOLEAN, jump : BOOLEAN]

NoKeys == [left |-> FALSE, right |-> FALSE, jump |-> FALSE]

RightKey == [left |-> FALSE, right |-> TRUE, jump |-> FALSE]

LeftKey == [left |-> TRUE, right |-> FALSE, jump |-> FALSE]

JumpKey == [left |-> FALSE, right |-> FALSE, jump |-> TRUE]

RightJump == [left |-> FALSE, right |-> TRUE, jump |-> TRUE]

LeftJump == [left |-> TRUE, right |-> FALSE, jump |-> TRUE]

\* The record of a frame in which nothing of note happened.
NoEv ==
    [gap |-> FALSE, tiles_at_gap |-> 0, built |-> 0, snap |-> 0,
     res |-> <<>>, picked |-> 0, powerup |-> 0, finish |-> FALSE,
     jump_held |-> FALSE]

\* The game a PLAYING frame works on.
TheFrame ==
    [state |-> state, score |-> score, timer |-> timer, player |-> player,
     platforms |-> platforms, tiles |-> tiles, power_ups |-> power_ups,
     ev |-> NoEv]

\* Game.update, PLAYING, lines 174-178: the timer and Player.update.  The
\* frame's record notes a jump key held down while the player is on the
\* ground.
step_player(f, k) ==
    [f EXCEPT !.timer = f.timer + 1, !.player = Player_update(f.player, k),
              !.ev.jump_held = k.jump /\ f.player.on_ground]

\* Lines 183-184: Level.check_collision.
step_collision(f) ==
    LET c == check_collision(f.player, f.platforms)
    IN  [f EXCEPT !.player = c.p, !.ev.snap = c.snap, !.ev.res = c.res]

\* The tile collection that leaves the tile's flag as it is.
step_tiles_keep(f, hov) ==
    LET i == check_tile_collection(f.player, f.tiles, hov)
    IN  IF i = 0 THEN f
        ELSE [f EXCEPT !.player = add_tile(f.player),
                       !.score = f.score + 10,
                       !.ev.picked = i]

\* Lines 180-181 and 186-191: Level.update moves the tiles (hover offset
\* hov), then the tile collection.
step_tiles(f, hov) ==
    LET i == check_tile_collection(f.player, f.tiles, hov)
    IN  IF i = 0 THEN f
        ELSE [f EXCEPT !.tiles[i].collected = TRUE,
                       !.player = add_tile(f.player),
                       !.score = f.score + 10,
                       !.ev.picked = i]

\* Lines 193-203: the gap check, the bridge or the fall.
step_gap(f) ==
    IF f.player.vel_y > gap_vel_y /\ check_gap(f.player, f.platforms)
    THEN IF f.player.tile_count > 0
         THEN LET q == remove_tile(f.player)
              IN  [f EXCEPT !.player = q,
                            !.platforms = build_bridge(f.platforms, q.x, q.y),
                            !.ev.gap = TRUE,
                            !.ev.tiles_at_gap = f.player.tile_count,
                            !.ev.built = f.ev.built + 1]
         ELSE [f EXCEPT !.player = fall(f.player),
                        !.state = STATE_GAME_OVER,
                        !.ev.gap = TRUE,
                        !.ev.tiles_at_gap = f.player.tile_count]
    ELSE f

\* Game._apply_powerup
apply_powerup(p, t) ==
    IF t = "speed" THEN activate_speed_boost(p)
    ELSE IF t = "jump" THEN activate_jump_boost(p)
    ELSE IF t = "magnet" THEN activate_tile_magnet(p)
    ELSE p

\* Lines 205-209: the power-ups.
step_powerup(f) ==
    LET i == check_powerup_collision(f.player, f.power_ups)
    IN  IF i = 0 THEN f
        ELSE [f EXCEPT !.power_ups[i].collected = TRUE,
                       !.player = apply_powerup(f.player, f.power_ups[i].type),
                       !.ev.powerup = i]

\* The bonus with the timer taken in frames, not in seconds.
finish_bonus_frames(tm, tc) == Max2(0, 10000 - tm * 10) + tc * 50

\* Lines 220-223: the bonus of the finish line.
finish_bonus(tm, tc) == Max2(0, 10000 - (tm \div 60) * 10) + tc * 50

\* The finish line check that adds the bonus and leaves the state alone.
step_finish_again(f) ==
    IF check_finish_line(f.player)
    THEN [f EXCEPT !.score = f.score
                             + finish_bonus(f.timer, f.player.tile_count),
                   !.ev.finish = TRUE]
    ELSE f

\* Lines 215-223: the finish line.
step_finish(f) ==
    IF check_finish_line(f.player)
    THEN [f EXCEPT !.state = STATE_LEVEL_COMPLETE,
                   !.score = f.score
                             + finish_bonus(f.timer, f.player.tile_count),
                   !.ev.finish = TRUE]
    ELSE f

\* The update without the check of the fall off the screen.
step_fell_never(f) == f

\* Lines 225-228: the player fell off the screen.
step_fell(f) ==
    IF f.player.y > px(SCREEN_HEIGHT + 200)
    THEN [f EXCEPT !.state = STATE_GAME_OVER] ELSE f

\* Game.update in STATE_PLAYING with the gap check and the bridge before
\* the collision resolution.
playing_frame_bridge_first(f, k, hov) ==
    LET f1 == step_player(f, k)
        f2 == step_gap(f1)
        f3 == step_collision(f2)
        f4 == step_tiles(f3, hov)
        f5 == step_powerup(f4)
        f6 == step_finish(f5)
    IN  step_fell(f6)

\* Game.update in STATE_PLAYING with the gap check before the tile
\* collection.
playing_frame_gap_first(f, k, hov) ==
    LET f1 == step_player(f, k)
        f2 == step_collision(f1)
        f3 == step_gap(f2)
        f4 == step_tiles(f3, hov)
        f5 == step_powerup(f4)
        f6 == step_finish(f5)
    IN  step_fell(f6)

\* Game.update in STATE_PLAYING: the whole frame.
playing_frame(f, k, hov) ==
    LET f1 == step_player(f, k)
        f2 == step_collision(f1)
        f3 == step_tiles(f2, hov)
        f4 == step_gap(f3)
        f5 == step_powerup(f4)
        f6 == step_finish(f5)
    IN  step_fell(f6)

\* ------------------------------------------------- ghost_chase: Maze

\* The grid of Maze.__init__: grid[y][x] = 1, all walls.
walls(width, height) == [y \in 0..(height - 1) |-> [x \in 0..(width - 1) |-> 1]]

\* (dx, dy) of Maze._generate_maze
carve_directions == << <<0, -2>>, <<2, 0>>, <<0, 2>>, <<-2, 0>> >>

\* (dx, dy) of Maze._has_path
path_directions == << <<0, -1>>, <<1, 0>>, <<0, 1>>, <<-1, 0>> >>

\* The cell (x, y) lies on the grid.
in_grid(width, height, x, y) ==
    0 <= x /\ x < width /\ 0 <= y /\ y < height

\* The while loop of Maze._generate_maze (lines 49-72) from the state s =
\* [grid, stack, visited, k]: the grid when the stack is empty.  k counts
\* the calls of random.choice, whose k-th result is the neighbour at index
\* pick[k] % len(neighbors).
RECURSIVE carve(_, _, _, _)
carve(s, width, height, pick) ==
    IF s.stack = <<>> THEN s.grid
    ELSE
      LET x == s.stack[Len(s.stack)][1]
          y == s.stack[Len(s.stack)][2]
          unvisited(d) ==
              /\ in_grid(width, height, x + d[1], y + d[2])
              /\ <<x + d[1], y + d[2]>> \notin s.visited
          neighbors == SelectSeq(carve_directions, unvisited)
      IN  IF neighbors # <<>>
          THEN LET d == neighbors[(At(pick, s.k) % Len(neighbors)) + 1]
                   nx == x + d[1]
                   ny == y + d[2]
               IN  carve([grid |-> [s.grid EXCEPT
                                      ![y + d[2] \div 2][x + d[1] \div 2] = 0,
                                      ![ny][nx] = 0],
                          stack |-> Append(s.stack, <<nx, ny>>),
                          visited |-> s.visited \cup {<<nx, ny>>},
                          k |-> s.k + 1],
                         width, height, pick)
          ELSE carve([s EXCEPT !.stack = SubSeq(s.stack, 1,
                                                Len(s.stack) - 1)],
                     width, height, pick)

\* The state of the loop at its start: the start cell open, on the stack
\* and visited.
carve_start(width, height, start_x, start_y) ==
    [grid |-> [walls(width, height) EXCEPT ![start_y][start_x] = 0],
     stack |-> << <<start_x, start_y>> >>,
     visited |-> {<<start_x, start_y>>},
     k |-> 1]

\* The BFS loop of Maze._has_path (lines 96-115) from the queue and the
\* visited set.
RECURSIVE has_path_from(_, _, _, _, _)
has_path_from(queue, visited, grid, width, height) ==
    IF queue = <<>> THEN FALSE
    ELSE
      LET x == Head(queue)[1]
          y == Head(queue)[2]
          fresh(d) ==
              /\ in_grid(width, height, x + d[1], y + d[2])
              /\ grid[y + d[2]][x + d[1]] = 0
              /\ <<x + d[1], y + d[2]>> \notin visited
          steps == SelectSeq(path_directions, fresh)
          found == [i \in 1..Len(steps) |->
                        <<x + steps[i][1], y + steps[i][2]>>]
      IN  IF Head(queue) = <<width - 2, height - 2>> THEN TRUE
          ELSE has_path_from(Tail(queue) \o found,
                             visited \cup {found[i] : i \in 1..Len(found)},
                             grid, width, height)

\* Maze._has_path
has_path(grid, width, height) ==
    has_path_from(<< <<1, 1>> >>, {<<1, 1>>}, grid, width, height)

\* Maze._ensure_path: row 1 and column width - 2 opened when there is no
\* path.
ensure_path(grid, width, height) ==
    IF has_path(grid, width, height) THEN grid
    ELSE [y \in 0..(height - 1) |-> [x \in 0..(width - 1) |->
             IF \/ y = 1 /\ 1 <= x /\ x < width - 1
                \/ x = width - 2 /\ 1 <= y /\ y < height - 1
             THEN 0 ELSE grid[y][x]]]

\* Maze._generate_maze with the loop only: the entrance and the exit are
\* not opened, no path is ensured.
generate_maze_carved(width, height, c) ==
    carve(carve_start(width, height, c.sx * 2 + 1, c.sy * 2 + 1),
          width, height, c.pick)

\* Maze._generate_maze: c.sx and c.sy are the draws randint(0, width // 2
\* - 1) and randint(0, height // 2 - 1), c.pick the draws of random.choice.
generate_maze(width, height, c) ==
    LET start_x == c.sx * 2 + 1
        start_y == c.sy * 2 + 1
        g1 == carve(carve_start(width, height, start_x, start_y),
                    width, height, c.pick)
        g2 == [g1 EXCEPT ![1][1] = 0]
        g3 == [g2 EXCEPT ![height - 2][width - 2] = 0]
    IN  ensure_path(g3, width, height)

\* The while True loop of Maze._create_ghost_paths: the first draw from
\* the k-th on that is a wall off the border, with its index.  cells holds
\* the draws (randint(1, width - 2), randint(1, height - 2)).
RECURSIVE ghost_wall(_, _, _, _, _)
ghost_wall(grid, width, height, cells, k) ==
    LET x == At(cells, k)[1]
        y == At(cells, k)[2]
    IN  IF grid[y][x] = 1 /\ 0 < x /\ x < width - 1
                          /\ 0 < y /\ y < height - 1
        THEN [cell |-> <<x, y>>, k |-> k]
        ELSE ghost_wall(grid, width, height, cells, k + 1)

\* Maze._create_ghost_paths: n (randint(3, 6)) walls appended.
RECURSIVE create_ghost_paths(_, _, _, _, _, _, _)
create_ghost_paths(paths, grid, width, height, cells, k, n) ==
    IF n = 0 THEN paths
    ELSE LET w == ghost_wall(grid, width, height, cells, k)
         IN  create_ghost_paths(Append(paths, w.cell), grid, width, height,
                                cells, w.k + 1, n - 1)

\* Maze(width, height)
Maze(width, height, c) ==
    LET grid == generate_maze(width, height, c)
    IN  [width |-> width, height |-> height, grid |-> grid,
         ghost_paths |-> create_ghost_paths(<<>>, grid, width, height,
                                            c.cells, 1, c.paths)]

\* No round of ghost_chase was started: no maze.
NoMaze == [width |-> 0, height |-> 0, grid |-> <<>>, ghost_paths |-> <<>>]

\* ------------------------------------------------------------ bounds

\* PLAYING frames with freely chosen keys, per behaviour.
MaxFree == 24

\* The frames a script that plays the whole round is followed for.
ScriptFrames == 1600

\* The frames right is held for to get near the finish line.
FinishFrames == 894

\* The frames HighLevel is collected for before the keys are free.
ApproachFrames == 1424

\* The frames RenewLevel is collected for before the keys are free.
RenewFrames == 170

\* The frames LowLevel is collected for before the keys are free.
ExpiryFrames == 385

\* The random draws of the generated levels explored.  Every draw lies in
\* the range of the generator's call: h 100..200, g 80..150, n 2..5,
\* tx 30..270, ty 30..60, px 50..250; pu is "none" when random() >= 0.3.
\* hover is the hover_range of the tiles (3..6), the same for all tiles.
LowLevel ==
    [h |-> <<100>>, g |-> <<80>>, n |-> <<5>>,
     tx |-> <<30, 90, 150, 210, 270>>, ty |-> <<30, 60, 45>>,
     pu |-> <<"speed", "none", "jump", "magnet">>, px |-> <<50, 250>>,
     hover |-> 5]

HighLevel ==
    [h |-> <<200>>, g |-> <<150>>, n |-> <<2>>,
     tx |-> <<100, 200>>, ty |-> <<30>>,
     pu |-> <<"none">>, px |-> <<50>>,
     hover |-> 3]

MixedLevel ==
    [h |-> <<150, 120, 180>>, g |-> <<100, 130>>, n |-> <<3, 2, 4>>,
     tx |-> <<40, 160, 260>>, ty |-> <<60, 40>>,
     pu |-> <<"none", "jump", "none", "speed">>, px |-> <<120>>,
     hover |-> 4]

LevelChoices == {LowLevel, HighLevel, MixedLevel}

\* A level with a speed power-up on every platform.
RenewLevel ==
    [h |-> <<100>>, g |-> <<80>>, n |-> <<2>>,
     tx |-> <<100, 200>>, ty |-> <<30>>,
     pu |-> <<"speed">>, px |-> <<50>>,
     hover |-> 3]

\* A level whose second platform is 67 px higher than the first; the tiles
\* of the first platform lie at its right end, those of the second at its
\* left end, 60 px above the platform, and hover by up to 6 px.
StepLevel ==
    [h |-> <<100, 167>>, g |-> <<80>>, n |-> <<2>>,
     tx |-> <<270, 270, 30, 30>>, ty |-> <<60>>,
     pu |-> <<"none">>, px |-> <<50>>,
     hover |-> 6]

\* A level whose last platform (x 4450..4750, 100 px above the ground)
\* reaches over the finish line, with its tiles at x = 4715.
EndLevel ==
    [h |-> <<100>>, g |-> <<94, 95>>, n |-> <<2>>,
     tx |-> <<265>>, ty |-> <<30>>,
     pu |-> <<"none">>, px |-> <<50>>,
     hover |-> 3]

\* The free keys explored: running to the right, with and without jump.
RunKeys == {RightKey, RightJump}

\* ------------------------------------------------------- the keyboard

\* The person at the keyboard follows input.script, a sequence of segments
\* [to, do]: up to frame to, do.  After the last segment they press any
\* keys of input.keys, for at most input.budget frames.
free_at ==
    IF input.script = <<>> THEN 0 ELSE input.script[Len(input.script)].to

Scripted == timer < free_at

\* What the script does in the coming frame.
script_do ==
    LET i == FirstIndex({j \in 1..Len(input.script) :
                            timer < input.script[j].to})
    IN  input.script[i].do

\* The player is above the generated platform pl, within its landing span.
above_platform(p, pl) ==
    /\ pl.width = platform_width
    /\ Abs(2 * p.x - (2 * pl.x + px(pl.width))) < px(pl.width) + px(player_width)
    /\ p.y + px(player_height) \div 2 <= pl.y + px(10)

\* The player stands on the ground platform with a generated platform
\* beginning 65 px ahead (within one step).
before_platform(p, pl) ==
    /\ pl.width = platform_width
    /\ p.y = px(ground_height) - px(player_height) \div 2
    /\ pl.x - p.x <= px(65)
    /\ pl.x - p.x > px(65) - base_speed(p)

\* The keys of a segment: "right", "left", "jump", "rightjump", "leftjump"
\* and "none" hold just that.  "collect" holds right; on the ground it adds jump 65 px before a
\* platform, which lands the player on top of it, and past the end of a
\* platform it lets go of the keys, to drop straight down.
script_keys ==
    IF script_do = "right" THEN RightKey
    ELSE IF script_do = "left" THEN LeftKey
    ELSE IF script_do = "jump" THEN JumpKey
    ELSE IF script_do = "none" THEN NoKeys
    ELSE IF script_do = "rightjump" THEN RightJump
    ELSE IF script_do = "leftjump" THEN LeftJump
    ELSE IF player.on_ground
    THEN IF \E i \in 2..Len(platforms) : before_platform(player, platforms[i])
         THEN RightJump ELSE RightKey
    ELSE IF /\ player.vel_y > 0
            /\ ~\E i \in 2..Len(platforms) :
                   above_platform(player, platforms[i])
         THEN NoKeys ELSE RightKey

\* ----------------------------------------------------------- actions

\* Level(): the level of the draws c.
NewLevel(c) ==
    \E lv \in {generate_level(c)} :
        /\ platforms' = lv.platforms
        /\ tiles' = lv.tiles
        /\ power_ups' = lv.power_ups
        /\ hover' = c.hover

\* Game.__init__ with the level of the draws c, the high score hs of the
\* file and the plan of the person at the keyboard.
InitWith(c, hs, plan) ==
    \E lv \in {generate_level(c)} :
        /\ state = STATE_STARTING
        /\ state_timer = start_frames
        /\ score = 0
        /\ timer = 0
        /\ high_score = hs
        /\ player = NewPlayer(100, SCREEN_HEIGHT - 100)
        /\ platforms = lv.platforms
        /\ tiles = lv.tiles
        /\ power_ups = lv.power_ups
        /\ hover = c.hover
        /\ ev = NoEv
        /\ input = plan
        /\ maze = NoMaze

\* Free keys from the first frame.
FreePlan(K) == [script |-> <<>>, keys |-> K, budget |-> MaxFree]

\* The script, free keys after it.
ScriptPlan(segments, K) ==
    [script |-> segments, keys |-> K, budget |-> MaxFree]

\* Right all the way.
WalkScript == <<[to |-> ScriptFrames, do |-> "right"]>>

\* Collecting all the way.
CollectScript == <<[to |-> ScriptFrames, do |-> "collect"]>>

\* On LowLevel: collect the tiles of the first platform and walk off its
\* end, which builds a bridge next to it (frame 139); drop onto the bridge,
\* walk back onto the end of the platform, and jump on the spot.
HopScript ==
    << [to |-> 136, do |-> "collect"], [to |-> 139, do |-> "right"],
       [to |-> 145, do |-> "none"],    [to |-> 149, do |-> "left"],
       [to |-> 150, do |-> "jump"],    [to |-> 190, do |-> "none"] >>

\* On LowLevel: walk under the second platform and jump back to the left,
\* into its right end.
BumpScript ==
    << [to |-> 160, do |-> "right"], [to |-> 200, do |-> "leftjump"] >>

\* Jump to the right from the start, with no tile in hand.
LeapScript == << [to |-> 30, do |-> "rightjump"] >>

\* On LowLevel: collect on the first platform, then jump about its bridges
\* until a jump goes up into a bridge right after take-off.
DuckScript ==
    << [to |-> 130, do |-> "collect"],  [to |-> 143, do |-> "leftjump"],
       [to |-> 156, do |-> "right"],    [to |-> 158, do |-> "none"],
       [to |-> 159, do |-> "leftjump"], [to |-> 160, do |-> "left"],
       [to |-> 166, do |-> "rightjump"], [to |-> 170, do |-> "right"] >>

\* On LowLevel: collect on the first platform, build a bridge past its end
\* and step back from the bridge onto the platform.
SlideScript ==
    << [to |-> 130, do |-> "collect"], [to |-> 138, do |-> "right"],
       [to |-> 144, do |-> "left"],    [to |-> 146, do |-> "jump"],
       [to |-> 148, do |-> "right"],   [to |-> 149, do |-> "left"],
       [to |-> 155, do |-> "none"] >>

\* Walk off the left end of the ground platform and fall with no key held.
FallScript ==
    << [to |-> 24, do |-> "left"], [to |-> 60, do |-> "none"] >>

\* On StepLevel: jump onto the first platform, hop over its tiles to its
\* right end and wait there; then jump towards the second platform, let go
\* of the keys while above its first tile, and press right in frame 265,
\* falling at 4.2 px per frame with the actor's centre 100 px above the
\* second platform.
PayScript ==
    << [to |-> 67, do |-> "right"],   [to |-> 68, do |-> "rightjump"],
       [to |-> 122, do |-> "right"],  [to |-> 123, do |-> "rightjump"],
       [to |-> 142, do |-> "right"],  [to |-> 240, do |-> "none"],
       [to |-> 241, do |-> "rightjump"], [to |-> 257, do |-> "right"],
       [to |-> 264, do |-> "none"],   [to |-> 265, do |-> "right"],
       [to |-> 275, do |-> "none"] >>

\* On LowLevel: collect on the first platform, jump off its right end and
\* let go of the keys above the gap next to it, 100 px wide: a straight
\* fall of 250 px to the ground.
SinkScript ==
    << [to |-> 130, do |-> "collect"], [to |-> 131, do |-> "rightjump"],
       [to |-> 140, do |-> "right"],   [to |-> 190, do |-> "none"] >>

\* On LowLevel: collect on the first platform and walk off its right end
\* with right held all the way.
SpendScript ==
    << [to |-> 136, do |-> "collect"], [to |-> 150, do |-> "right"] >>

\* On LowLevel: collect on the first platform, then jump about the gap
\* next to it, building bridges at several heights, until one update
\* resolves collisions with two of them.
PerchScript ==
    << [to |-> 136, do |-> "collect"],  [to |-> 140, do |-> "leftjump"],
       [to |-> 165, do |-> "right"],    [to |-> 180, do |-> "left"],
       [to |-> 182, do |-> "none"],     [to |-> 190, do |-> "leftjump"],
       [to |-> 198, do |-> "right"],    [to |-> 200, do |-> "rightjump"] >>

\* Let the actor settle on the ground platform, then jump to the right
\* with no tile in hand.
GroundJumpScript ==
    << [to |-> 12, do |-> "none"], [to |-> 45, do |-> "rightjump"] >>

\* Collecting on HighLevel up to the last ground before the finish line.
ApproachScript == << [to |-> ApproachFrames, do |-> "collect"] >>

\* Collecting on RenewLevel past its second power-up.
RenewScript == << [to |-> RenewFrames, do |-> "collect"] >>

\* Collecting on LowLevel until the speed boost is about to run out.
ExpiryScript == << [to |-> ExpiryFrames, do |-> "collect"] >>

\* Right up to the finish line.
FinishScript == <<[to |-> FinishFrames, do |-> "right"]>>

\* On EndLevel: walk up to the last platform, jump on the spot and move
\* right onto it, and walk to its tiles, which lie at the finish line.
EndScript ==
    << [to |-> 866, do |-> "right"], [to |-> 875, do |-> "jump"],
       [to |-> 926, do |-> "right"] >>

Init ==
    \E c \in LevelChoices : InitWith(c, 0, FreePlan(RunKeys))

\* The whole round held right.
InitWalk ==
    \E c \in LevelChoices : InitWith(c, 0, ScriptPlan(WalkScript, {}))

\* The scripted rounds: collecting all the way, and the short scripts.
InitCollect ==
    \/ \E c \in LevelChoices : InitWith(c, 0, ScriptPlan(CollectScript, {}))
    \/ \E sc \in {HopScript, BumpScript, DuckScript, FallScript,
                  SlideScript, SinkScript, SpendScript,
                  GroundJumpScript, PerchScript} :
           InitWith(LowLevel, 0, ScriptPlan(sc, {}))
    \/ InitWith(HighLevel, 0, ScriptPlan(LeapScript, {}))
    \/ InitWith(StepLevel, 0, ScriptPlan(PayScript, {}))

\* Up to the finish line by a script, free keys from there.
InitFinish ==
    \/ \E c \in LevelChoices :
           InitWith(c, 0, ScriptPlan(FinishScript, RunKeys))
    \/ InitWith(HighLevel, 0, ScriptPlan(ApproachScript, RunKeys))
    \/ InitWith(RenewLevel, 0, ScriptPlan(RenewScript, RunKeys))
    \/ InitWith(LowLevel, 0, ScriptPlan(ExpiryScript, RunKeys))
    \/ InitWith(EndLevel, 0, ScriptPlan(EndScript, RunKeys))

\* Game.update in STATE_STARTING that leaves the state one update late.
UpdateStarting_late ==
    /\ state = STATE_STARTING
    /\ state_timer' = state_timer - 1
    /\ state' = IF state_timer - 1 < 0 THEN STATE_PLAYING ELSE state
    /\ UNCHANGED <<score, timer, high_score, player, platforms, tiles,
                   power_ups, hover, ev, input,
                   maze>>

\* Game.update in STATE_STARTING (lines 167-171).
UpdateStarting ==
    /\ state = STATE_STARTING
    /\ state_timer' = state_timer - 1
    /\ state' = IF state_timer - 1 <= 0 THEN STATE_PLAYING ELSE state
    /\ UNCHANGED <<score, timer, high_score, player, platforms, tiles,
                   power_ups, hover, ev, input,
                   maze>>

\* Game.update in STATE_PLAYING (lines 173-228) with the pressed keys k.
UpdatePlaying(k) ==
    /\ state = STATE_PLAYING
    /\ \E f \in {playing_frame(TheFrame, k, hover_at(hover, timer + 1))} :
         /\ state' = f.state
         /\ score' = f.score
         /\ timer' = f.timer
         /\ player' = f.player
         /\ platforms' = f.platforms
         /\ tiles' = f.tiles
         /\ power_ups' = f.power_ups
         /\ ev' = f.ev
    /\ UNCHANGED <<state_timer, high_score, hover, maze>>

\* A frame of the script.
UpdateScripted ==
    /\ Scripted
    /\ UpdatePlaying(script_keys)
    /\ UNCHANGED input

\* A frame with free keys.
UpdateFree ==
    /\ ~Scripted
    /\ input.budget > 0
    /\ \E k \in input.keys : UpdatePlaying(k)
    /\ input' = [input EXCEPT !.budget = input.budget - 1]

\* Game.update that keeps the timer running while paused.
UpdateIdle_running ==
    /\ state \in {STATE_PAUSED, STATE_GAME_OVER, STATE_LEVEL_COMPLETE}
    /\ timer' = IF state = STATE_PAUSED THEN timer + 1 ELSE timer
    /\ UNCHANGED <<state, state_timer, score, high_score, player, platforms,
                   tiles, power_ups, hover, ev, input, maze>>

\* Game.update in the other states (lines 230-232 and no branch at all).
UpdateIdle ==
    /\ state \in {STATE_PAUSED, STATE_GAME_OVER, STATE_LEVEL_COMPLETE}
    /\ UNCHANGED vars

\* KeyP toggling out of every state but STARTING.
KeyP_any ==
    /\ ~Scripted
    /\ state # STATE_STARTING
    /\ state' = IF state = STATE_PLAYING THEN STATE_PAUSED
                ELSE STATE_PLAYING
    /\ UNCHANGED <<state_timer, score, timer, high_score, player, platforms,
                   tiles, power_ups, hover, ev, input, maze>>

\* Game.handle_event, KEYDOWN K_p (lines 127-131, 145-146).
KeyP ==
    /\ ~Scripted
    /\ state \in {STATE_PLAYING, STATE_PAUSED}
    /\ state' = IF state = STATE_PLAYING THEN STATE_PAUSED
                ELSE STATE_PLAYING
    /\ UNCHANGED <<state_timer, score, timer, high_score, player, platforms,
                   tiles, power_ups, hover, ev, input, maze>>

\* Player.handle_event for a jump key (lines 121-123).
Player_handle_event(p) == IF p.on_ground THEN jump(p) ELSE p

\* Game._save_high_score: the file write may fail, and then high_score
\* keeps its value.
save_high_score(sc, hs, ok) == IF sc > hs /\ ok THEN sc ELSE hs

\* Game.handle_event, KEYDOWN of a jump key in STATE_PLAYING (lines 134-140
\* and 145-146).
KeyJumpPlaying ==
    /\ ~Scripted
    /\ state = STATE_PLAYING
    /\ player' = Player_handle_event(jump(player))
    /\ UNCHANGED <<state, state_timer, score, timer, high_score, platforms,
                   tiles, power_ups, hover, ev, input, maze>>

\* Game.handle_event, KEYDOWN of a jump key in STATE_GAME_OVER or
\* STATE_LEVEL_COMPLETE: Game._restart_game (lines 141-142, 148-162).  The
\* next round is played with free keys.
KeyJumpRestart ==
    /\ ~Scripted
    /\ state \in {STATE_GAME_OVER, STATE_LEVEL_COMPLETE}
    /\ \E c \in LevelChoices, ok \in BOOLEAN :
         /\ high_score' = save_high_score(score, high_score, ok)
         /\ NewLevel(c)
    /\ state' = STATE_STARTING
    /\ state_timer' = start_frames
    /\ score' = 0
    /\ timer' = 0
    /\ player' = NewPlayer(100, SCREEN_HEIGHT - 100)
    /\ input' = [input EXCEPT !.script = <<>>]
    /\ UNCHANGED <<ev, maze>>

\* Game.handle_event, any other event or state: nothing changes
\* (KEYDOWN of a jump key or K_p in STATE_STARTING, any other key).
KeyIgnored ==
    /\ ~Scripted
    /\ UNCHANGED vars

Next ==
    \/ UpdateStarting
    \/ UpdateFree
    \/ UpdateIdle
    \/ KeyP
    \/ KeyJumpPlaying
    \/ KeyJumpRestart
    \/ KeyIgnored

\* The round from its construction with free keys.
Spec == Init /\ [][Next]_vars

\* The steps of a round played by a script: updates only.
NextScript ==
    \/ UpdateStarting
    \/ UpdateScripted
    \/ UpdateIdle

\* The steps of a round that begins by a script and goes on with free keys.
NextPlanned ==
    \/ UpdateScripted
    \/ Next

\* What every update of a running round does to the frame counters: the
\* countdown of STARTING, the timer of a scripted PLAYING frame.
Advance ==
    \/ /\ state = STATE_STARTING
       /\ state_timer' = state_timer - 1
       /\ timer' = timer
    \/ /\ state = STATE_PLAYING
       /\ Scripted
       /\ timer' = timer + 1
       /\ state_timer' = state_timer

\* The round held right from its construction.  The main loop calls update
\* in every iteration, so the frame counters advance: weak fairness.
SpecWalk ==
    InitWalk /\ [][NextScript]_vars /\ WF_<<state_timer, timer>>(Advance)

\* The scripted rounds.
SpecCollect == InitCollect /\ [][NextScript]_vars

\* The round walked to the finish line and played freely from there.
SpecFinish == InitFinish /\ [][NextPlanned]_vars

\* -------------------------------------------------------------- C9

\* The changes of Game.state the state machine lists.
ListedTransitions ==
    { <<STATE_STARTING, STATE_PLAYING>>,
      <<STATE_PLAYING, STATE_PAUSED>>,
      <<STATE_PAUSED, STATE_PLAYING>>,
      <<STATE_PLAYING, STATE_LEVEL_COMPLETE>>,
      <<STATE_PLAYING, STATE_GAME_OVER>> }

\* The changes made by Game._restart_game.
RestartTransitions ==
    { <<STATE_GAME_OVER, STATE_STARTING>>,
      <<STATE_LEVEL_COMPLETE, STATE_STARTING>> }

\* C9, as stated: over any sequence of updates and key events the state
\* changes only by STARTING -> PLAYING, PLAYING -> PAUSED, PAUSED -> PLAYING,
\* PLAYING -> LEVEL_COMPLETE and PLAYING -> GAME_OVER, so GAME_OVER and
\* LEVEL_COMPLETE are never left.  A jump key in GAME_OVER restarts the
\* round, which refutes it.
C9_OnlyListedTransitions ==
    [][state' # state => <<state, state'>> \in ListedTransitions]_vars

\* C9, amended: the state changes only by the listed transitions and by the
\* restart, GAME_OVER -> STARTING and LEVEL_COMPLETE -> STARTING.
C9_ListedOrRestart ==
    [][state' # state =>
         <<state, state'>> \in ListedTransitions \cup RestartTransitions]_vars

\* C9, witness: a round that ended at a gap was restarted.
C9_Restarted == state = STATE_STARTING /\ ev.gap

\* -------------------------------------------------------------- C8

\* The actor at rest on the ground platform: bottom edge on the ground top.
AtRest(p) ==
    /\ p.on_ground
    /\ p.vel_y = 0
    /\ p.y + px(player_height) \div 2 = px(ground_height)

\* The actor right after Game.handle_event made it jump from rest on the
\* ground platform: no update has run since (jump_safety is still 10).
JumpHandled(p) ==
    /\ ~p.on_ground
    /\ p.jump_safety = jump_safety_frames
    /\ p.vel_y = jump_strength(p)
    /\ p.y + px(player_height) \div 2 = px(ground_height) - px(2)

\* A PLAYING update.
IsUpdate == state = STATE_PLAYING /\ timer' = timer + 1

\* C8, as stated: at rest on the ground platform with a jump intent, after
\* one update on_ground is false and vel_y is jump_power (times 1.3 with
\* the jump boost).  The intent is a jump key held down in the update or a
\* KEYDOWN handled before it; the second refutes it.
C8_JumpVelocity ==
    [][IsUpdate /\ ((AtRest(player) /\ ev'.jump_held) \/ JumpHandled(player))
         => ~player'.on_ground /\ player'.vel_y = jump_strength(player)]_vars

\* C8, amended: after the update on_ground is false; vel_y is the jump
\* strength when the update itself read the held key, and the jump strength
\* plus one frame of gravity when the KEYDOWN event made the jump.
C8_JumpVelocityByPath ==
    [][IsUpdate =>
         /\ AtRest(player) /\ ev'.jump_held
              => ~player'.on_ground /\ player'.vel_y = jump_strength(player)
         /\ JumpHandled(player)
              => /\ ~player'.on_ground
                 /\ player'.vel_y = jump_strength(player) + gravity]_vars

\* C8, witness: one update after a jump from rest on the ground platform
\* by the held key.
C8_Jumped ==
    /\ ev.jump_held
    /\ ~player.on_ground
    /\ player.jump_safety = jump_safety_frames - 1
    /\ player.vel_y = px(jump_power)
    /\ player.y = px(ground_height) - px(player_height) \div 2
                  - px(2) + px(jump_power)

\* ------------------------------------------------------------- C10

\* C10: for every level generated the finish line can be reached, there are
\* keys that take the round from its construction to LEVEL_COMPLETE.  Right
\* held in every frame is such a sequence: the round held right ends in
\* LEVEL_COMPLETE.
C10_FinishReached == <>(state = STATE_LEVEL_COMPLETE)

\* C10, witness: the round held right crossed the finish line.
C10_WalkedAcross ==
    /\ state = STATE_LEVEL_COMPLETE
    /\ ev.finish
    /\ input.script = WalkScript
    /\ player.tile_count = 0

\* -------------------------------------------------------------- C1

\* A platform built by Level.build_bridge.
IsBridge(pl) == pl.width = bridge_width /\ pl.height = bridge_height

\* C1: tile_count stays within 0..max_tiles in every state of a round,
\* whatever the pickups and the gaps, and no bridge is built in a frame in
\* which the gap was declared with tile_count 0.
C1_TileCountBounded ==
    /\ [](player.tile_count \in 0..max_tiles)
    /\ [][IsUpdate /\ ev'.gap /\ ev'.tiles_at_gap = 0
            => platforms' = platforms]_vars

\* C1, witness: a tile picked up with max_tiles tiles in hand, before any
\* bridge was built; the score counts it, tile_count does not.
C1_PickedAtCap ==
    /\ ev.picked # 0
    /\ player.tile_count = max_tiles
    /\ score > 10 * max_tiles
    /\ \A i \in 1..Len(platforms) : ~IsBridge(platforms[i])

\* -------------------------------------------------------------- C2

C3_GapEndsRound ==
    [][IsUpdate /\ ev'.gap /\ ev'.tiles_at_gap = 0 =>
         /\ platforms' = platforms
         /\ player'.vel_y = px(fall_velocity)
         /\ state' = STATE_GAME_OVER]_vars

\* -------------------------------------------------------------- C4

\* C4: a PLAYING update that leaves the actor overlapping the finish line
\* sets the state to LEVEL_COMPLETE and adds the finish bonus, of the
\* frame's timer and tile_count, to the score; while the state stays
\* LEVEL_COMPLETE the score does not change again.
C4_BonusOnce ==
    [][/\ IsUpdate /\ check_finish_line(player') =>
            /\ state' = STATE_LEVEL_COMPLETE
            /\ score' = score + (IF ev'.picked # 0 THEN 10 ELSE 0)
                              + finish_bonus(timer', player'.tile_count)
       /\ state = STATE_LEVEL_COMPLETE /\ state' = STATE_LEVEL_COMPLETE =>
            score' = score]_vars

\* C4, witness: the level completed with tiles in hand, the bonus in the
\* score.
C4_Completed ==
    /\ state = STATE_LEVEL_COMPLETE
    /\ check_finish_line(player)
    /\ player.tile_count > 0
    /\ score >= finish_bonus(timer, player.tile_count) + 10

\* -------------------------------------------------------------- C5

\* The rectangles of the player and of the platform do not overlap along
\* the axis of the side resolved.
axis_clear(p, pl, side) ==
    LET a == Player_get_rect(p)
        b == Platform_get_rect(pl)
    IN  IF side \in {"left", "right"}
        THEN ~(a.x < b.x + b.w /\ a.x + a.w > b.x)
        ELSE ~(a.y < b.y + b.h /\ a.y + a.h > b.y)

\* C5: after Level.check_collision the actor's rectangle does not overlap
\* the rectangle of a platform along the axis on which the call resolved a
\* collision with that platform: the vertical axis for the landing of the
\* ground pass and for the collisions from below and above, the horizontal
\* axis for the collisions from the left and the right.
C5_ResolvedAxisClear ==
    [][IsUpdate =>
         /\ ev'.snap # 0 => axis_clear(player', platforms[ev'.snap], "above")
         /\ \A j \in 1..Len(ev'.res) :
                axis_clear(player', platforms[ev'.res[j][1]],
                           ev'.res[j][2])]_vars

\* C5, witness: a collision from the left was resolved.
C5_ResolvedLeft ==
    /\ state = STATE_PLAYING
    /\ \E j \in 1..Len(ev.res) :
           /\ ev.res[j][2] = "left"
           /\ player.x = platforms[ev.res[j][1]].x - px(player_width) \div 2

\* -------------------------------------------------------------- C6

\* C6, as stated: the landing is idempotent.  When Level.check_collision
\* leaves the actor on the ground with vel_y 0, a second call with the same
\* platforms leaves x and y unchanged and on_ground true.  An actor landed
\* on a bridge less than 5 px above the platform next to it refutes it:
\* the second call lands it on the platform.
C6_SnapIdempotent ==
    [][IsUpdate /\ player'.on_ground /\ player'.vel_y = 0 =>
         LET c == check_collision(player', platforms')
         IN  /\ c.p.x = player'.x
             /\ c.p.y = player'.y
             /\ c.p.on_ground]_vars

\* -------------------------------------------------------------- C7

\* C7: whenever jump_safety is greater than 0 Level.check_gap returns
\* false, also with no platform below the actor, and the frame spends no
\* tile, builds no bridge and declares no gap.
C7_NoGapWhileSafe ==
    /\ [](player.jump_safety > 0 => ~check_gap(player, platforms))
    /\ [][IsUpdate /\ player'.jump_safety > 0 =>
            /\ ~ev'.gap
            /\ platforms' = platforms
            /\ player'.tile_count >= player.tile_count]_vars

\* C7, witness: the actor falls faster than 2 px per frame, moving
\* sideways, with no platform within 100 px below it, while jump_safety is
\* still greater than 0.
C7_SafeOverGap ==
    /\ state = STATE_PLAYING
    /\ player.jump_safety > 0
    /\ player.vel_y > gap_vel_y
    /\ Abs(player.vel_x) > gap_vel_x
    /\ ~player.on_ground
    /\ \A i \in 1..Len(platforms) :
           ~colliderect(ray_rect(player), Platform_get_rect(platforms[i]))

\* ------------------------------------------------------------- C11

\* The platform covers the column of the probe of Level.check_gap and its
\* top is not above the actor's bottom edge.
beneath(p, pl) ==
    LET r == ray_rect(p)
        b == Platform_get_rect(pl)
    IN  /\ r.x < b.x + b.w
        /\ r.x + r.w > b.x
        /\ b.y >= Trunc(p.y) + player_height \div 2

\* C11, as stated: a gap is declared only when no platform lies beneath
\* the actor's column, at whatever distance: with a platform beneath, the
\* ground platform for one, check_gap returns false.  The ground platform
\* lies beneath every gap declared, which refutes it.
C11_NoGapOverPlatform ==
    [][IsUpdate /\ ev'.gap =>
         ~\E i \in 1..Len(platforms) : beneath(player', platforms[i])]_vars

\* C11, amended: a gap is declared only when no platform intersects the
\* probe, the rectangle 10 px wide about the actor's x that reaches from
\* the actor's y to 100 px below it; a platform further down does not
\* count.
C11_GapOnlyBelowProbe ==
    /\ [](check_gap(player, platforms) =>
            \A i \in 1..Len(platforms) :
                ~colliderect(ray_rect(player),
                             Platform_get_rect(platforms[i])))
    /\ [][IsUpdate /\ ev'.gap =>
            \A i \in 1..Len(platforms) :
                ~colliderect(ray_rect(player'),
                             Platform_get_rect(platforms[i]))]_vars

\* C11, witness: a gap declared, and a bridge built, with the ground
\* platform beneath the actor, more than 100 px below it.
C11_GapOverGround ==
    /\ state = STATE_PLAYING
    /\ ev.gap
    /\ ev.tiles_at_gap > 0
    /\ beneath(player, platforms[1])
    /\ player.y + px(100) < platforms[1].y

\* ------------------------------------------------------------- C12

\* The step is Game._restart_game, which ends the round.
IsRestart ==
    /\ state \in {STATE_GAME_OVER, STATE_LEVEL_COMPLETE}
    /\ state' = STATE_STARTING

\* C12: during a round the platform list only grows: a step keeps every
\* platform as it is and in its place, appends at most one platform, a
\* bridge, at the end; and the ground platform, x = 0, width level_width,
\* height 50, is the first element in every state.
C12_PlatformsOnlyGrow ==
    /\ [](/\ Len(platforms) >= 1
          /\ platforms[1] = Platform(0, px(ground_height), level_width, 50))
    /\ [][~IsRestart =>
            \/ platforms' = platforms
            \/ /\ Len(platforms') = Len(platforms) + 1
               /\ SubSeq(platforms', 1, Len(platforms)) = platforms
               /\ IsBridge(platforms'[Len(platforms')])]_vars

\* C12, witness: a bridge at the end of the list, behind the ground
\* platform and the generated platforms.
C12_BridgeAtEnd ==
    /\ Len(platforms) >= 3
    /\ IsBridge(platforms[Len(platforms)])
    /\ \A i \in 1..(Len(platforms) - 1) : ~IsBridge(platforms[i])
    /\ platforms[1].width = level_width
    /\ platforms[2].width = platform_width

\* ------------------------------------------------------------- C13

\* C13: Level.check_gap returns true only with vel_y > 2.0, on_ground
\* false and |vel_x| > 0.5.  An actor falling with no horizontal movement
\* has no gap declared, whatever lies below it: the frame spends no tile
\* and does not end the round by the gap rule.
C13_GapNeedsMovement ==
    /\ [](check_gap(player, platforms) =>
            /\ player.vel_y > gap_vel_y
            /\ ~player.on_ground
            /\ Abs(player.vel_x) > gap_vel_x)
    /\ [][IsUpdate /\ ev'.gap =>
            /\ player'.vel_y > gap_vel_y
            /\ ~player'.on_ground
            /\ Abs(player'.vel_x) > gap_vel_x]_vars
    /\ [][IsUpdate /\ player'.vel_x = 0 =>
            /\ ~ev'.gap
            /\ platforms' = platforms
            /\ player'.tile_count >= player.tile_count]_vars

\* C13, witness: the actor falls straight down, faster than 2 px per
\* frame, with tiles in hand, jump_safety 0 and no platform in the probe.
C13_StraightFall ==
    /\ state = STATE_PLAYING
    /\ ~player.on_ground
    /\ player.vel_y > gap_vel_y
    /\ player.vel_x = 0
    /\ player.jump_safety = 0
    /\ player.tile_count > 0
    /\ ~ev.gap
    /\ \A i \in 1..Len(platforms) :
           ~colliderect(ray_rect(player), Platform_get_rect(platforms[i]))

\* ------------------------------------------------------------- C15

\* C15: in STATE_PAUSED no update changes anything of the simulation, the
\* player, the platforms, the tiles and power-ups, the score and the timer;
\* the only step that changes anything is the pause key, which sets the
\* state to PLAYING and leaves the rest as it is.
C15_PausedFrozen ==
    [][state = STATE_PAUSED =>
         /\ state' = STATE_PLAYING
         /\ UNCHANGED <<state_timer, score, timer, high_score, player,
                        platforms, tiles, power_ups, hover>>]_vars

\* C15, witness: the round paused with the actor in the air, moving.
C15_PausedInFlight ==
    /\ state = STATE_PAUSED
    /\ ~player.on_ground
    /\ player.vel_y # 0
    /\ player.vel_x # 0
    /\ timer > 0

\* ------------------------------------------------------------- C16

\* C16: a PLAYING update that leaves the actor's y above SCREEN_HEIGHT +
\* 200 leaves the state GAME_OVER.
C16_FellOffScreen ==
    [][IsUpdate /\ player'.y > px(SCREEN_HEIGHT + 200) =>
         state' = STATE_GAME_OVER]_vars

\* C16, witness: the round ended by the fall off the screen, with no gap
\* declared.
C16_Fell ==
    /\ state = STATE_GAME_OVER
    /\ player.y > px(SCREEN_HEIGHT + 200)
    /\ ~ev.gap
    /\ player.vel_y # px(fall_velocity)

\* ------------------------------------------------------------- C17

\* The step is the KEYDOWN of a jump key in STATE_PLAYING that made the
\* actor jump.
IsJumpEvent ==
    /\ state = STATE_PLAYING
    /\ state' = STATE_PLAYING
    /\ timer' = timer
    /\ player' # player

\* C17: a jump happens only with on_ground true.  Player.jump of an actor
\* in the air changes nothing; the jump of a key event starts on the
\* ground and sets jump_safety to 10; in an update jump_safety is 9 after a
\* jump by the held key on the ground, 10 set and 1 counted, and otherwise
\* one less than before, down to 0: no jump starts in the air.
C17_JumpOnlyOnGround ==
    /\ [](~player.on_ground => jump(player) = player)
    /\ [][IsJumpEvent =>
            /\ player.on_ground
            /\ player' = [player EXCEPT
                              !.vel_y = jump_strength(player),
                              !.on_ground = FALSE,
                              !.y = player.y - px(2),
                              !.jump_safety = jump_safety_frames]]_vars
    /\ [][IsUpdate =>
            player'.jump_safety =
                IF ev'.jump_held THEN jump_safety_frames - 1
                ELSE Max2(player.jump_safety - 1, 0)]_vars
    /\ [][IsUpdate /\ ~player.on_ground => ~ev'.jump_held]_vars

\* C17, witness: the actor still rising from a jump, jump_safety counted
\* down to 0.
C17_CountedDown ==
    /\ state = STATE_PLAYING
    /\ ~player.on_ground
    /\ player.vel_y < 0
    /\ player.jump_safety = 0
    /\ player.y < px(ground_height) - px(player_height) \div 2

\* ------------------------------------------------------------- C18

\* The entity after the step: the same, or collected now.
collected_only(e, f) ==
    \/ f = e
    \/ ~e.collected /\ f = [e EXCEPT !.collected = TRUE]

\* C18: within a round the tile list and the power-up list keep their
\* length, and a step leaves each tile and power-up as it is or sets its
\* collected flag from false to true; the tile or power-up an update
\* collects was not collected before and is collected after.
C18_CollectedOnce ==
    /\ [][~IsRestart =>
            /\ Len(tiles') = Len(tiles)
            /\ Len(power_ups') = Len(power_ups)
            /\ \A i \in 1..Len(tiles) : collected_only(tiles[i], tiles'[i])
            /\ \A i \in 1..Len(power_ups) :
                   collected_only(power_ups[i], power_ups'[i])]_vars
    /\ [][IsUpdate /\ ev'.picked # 0 =>
            /\ ~tiles[ev'.picked].collected
            /\ tiles'[ev'.picked].collected]_vars
    /\ [][IsUpdate /\ ev'.powerup # 0 =>
            /\ ~power_ups[ev'.powerup].collected
            /\ power_ups'[ev'.powerup].collected]_vars

\* C18, witness: the actor overlaps a tile collected in an earlier frame,
\* and a power-up is collected too.
C18_OverCollected ==
    /\ state = STATE_PLAYING
    /\ ev.picked = 0
    /\ \E i \in 1..Len(tiles) :
           /\ tiles[i].collected
           /\ colliderect(Player_get_rect(player),
                          Tile_get_rect(tiles[i], hover_at(hover, timer)))
    /\ \E j \in 1..Len(power_ups) : power_ups[j].collected

\* ------------------------------------------------------------- C19

\* The platforms that qualify in the ground pass of Level.check_collision
\* for the player p.
qualifying(p, plats) ==
    {i \in 1..Len(plats) :
        ground_test([p EXCEPT !.on_ground = FALSE], plats[i])}

\* C19: when several platforms qualify in the ground pass of
\* Level.check_collision, the actor is landed on the first of them in list
\* order, so a generated platform goes before a bridge that qualifies too.
C19_FirstQualifying ==
    [](LET Q == qualifying(player, platforms)
           c == check_collision(player, platforms)
       IN  Q # {} =>
             /\ c.snap \in Q
             /\ \A j \in Q : c.snap <= j
             /\ c.p.y = platforms[c.snap].y - px(player_height) \div 2
             /\ c.p.on_ground
             /\ IsBridge(platforms[c.snap]) =>
                    \A j \in Q : IsBridge(platforms[j]))

\* C19, witness: the actor stands on a bridge, and the generated platform
\* next to the bridge qualifies too; check_collision lands it on the
\* platform.
C19_PlatformBeforeBridge ==
    /\ state = STATE_PLAYING
    /\ player.on_ground
    /\ \E i, j \in qualifying(player, platforms) :
           /\ i < j
           /\ ~IsBridge(platforms[i])
           /\ IsBridge(platforms[j])
           /\ player.y = platforms[j].y - px(player_height) \div 2
           /\ check_collision(player, platforms).snap = i

\* ------------------------------------------------------------- C20

\* C20: when the ground pass of Level.check_collision finds a platform
\* that qualifies, the general pass is not run in that call: the call sets
\* y to the platform's y less half the height, vel_y to 0 and on_ground to
\* true and changes nothing else, x and vel_x stay as Player.update left
\* them, also when the actor's rectangle overlaps other platforms.
C20_SnapOnly ==
    /\ [](LET c == check_collision(player, platforms)
          IN  qualifying(player, platforms) # {} =>
                /\ c.res = <<>>
                /\ c.p = [player EXCEPT
                              !.y = platforms[c.snap].y
                                    - px(player_height) \div 2,
                              !.vel_y = 0,
                              !.on_ground = TRUE])
    /\ [][IsUpdate /\ ev'.snap # 0 =>
            /\ ev'.res = <<>>
            /\ player'.x = player.x + player'.vel_x
            /\ player'.y = platforms[ev'.snap].y - px(player_height) \div 2
            /\ player'.vel_y = 0
            /\ player'.on_ground]_vars

\* C20, witness: the actor was landed on a platform while it moves left
\* with its right edge less than 5 px into a bridge it overlaps: past the
\* landing, the general pass would resolve a collision from the right.
C20_SnapOverlapping ==
    /\ state = STATE_PLAYING
    /\ ev.snap # 0
    /\ player.vel_x < 0
    /\ \E i \in 1..Len(platforms) :
           /\ i # ev.snap
           /\ IsBridge(platforms[i])
           /\ colliderect(Player_get_rect(player),
                          Platform_get_rect(platforms[i]))
           /\ player.x + px(player_width) \div 2 - platforms[i].x < px(5)

\* ------------------------------------------------------------- C21

\* The player Level.check_collision is called with in the coming frame of
\* the script: the one Player.update leaves.
Entering == Player_update(player, script_keys)

\* The player after the first i platforms of the general pass.
resolve_upto(p, rect, plats, i) ==
    resolve_from(p, rect, SubSeq(plats, 1, i), 1, <<>>).p

\* What the general pass may do with the platform pl: b is the player
\* before it, a the player after it.  The side of smallest overlap is taken;
\* the translation goes along that axis only, against a velocity that is
\* not 0 on that axis, and leaves the velocity of that axis 0; with the
\* velocity 0 or the other way the platform is skipped.
resolved_by_sign(b, a, rect, pl) ==
    LET hw == px(player_width) \div 2
        hh == px(player_height) \div 2
        left_overlap   == (pl.x + px(pl.width)) - (b.x - hw)
        right_overlap  == (b.x + hw) - pl.x
        top_overlap    == (pl.y + px(pl.height)) - (b.y - hh)
        bottom_overlap == (b.y + hh) - pl.y
        m == Min2(Min2(left_overlap, right_overlap),
                  Min2(top_overlap, bottom_overlap))
        vertical == \/ m = bottom_overlap /\ b.vel_y < 0
                    \/ m = top_overlap /\ b.vel_y > 0
        horizontal == \/ m = left_overlap /\ b.vel_x > 0
                      \/ m = right_overlap /\ b.vel_x < 0
    IN  IF ~colliderect(rect, Platform_get_rect(pl))
        THEN a = b
        ELSE IF ~vertical /\ ~horizontal
        THEN a = b
        ELSE \/ /\ vertical
                /\ a.vel_y = 0
                /\ (a.y - b.y) * b.vel_y <= 0
                /\ a.x = b.x /\ a.vel_x = b.vel_x
             \/ /\ horizontal
                /\ a.vel_x = 0
                /\ (a.x - b.x) * b.vel_x <= 0
                /\ a.y = b.y /\ a.vel_y = b.vel_y

\* C21: in the general pass of Level.check_collision every platform that
\* intersects the actor's rectangle is resolved on the side of smallest
\* overlap, and only against the sign of the velocity on that axis, which
\* is then set to 0; otherwise the platform leaves position and velocity
\* as they are.
C21_ResolvedBySign ==
    [][IsUpdate /\ Scripted /\ ev'.snap = 0 =>
         LET e == [Entering EXCEPT !.on_ground = FALSE]
             rect == Player_get_rect(Entering)
         IN  /\ \A i \in 1..Len(platforms) :
                    resolved_by_sign(resolve_upto(e, rect, platforms, i - 1),
                                     resolve_upto(e, rect, platforms, i),
                                     rect, platforms[i])
             /\ player'.x = resolve_upto(e, rect, platforms, Len(platforms)).x
             /\ player'.y = resolve_upto(e, rect, platforms, Len(platforms)).y
             /\ player'.vel_x
                  = resolve_upto(e, rect, platforms, Len(platforms)).vel_x]_vars

\* C21, witness: the general pass resolved one platform, and the actor is
\* left overlapping another one, which it skipped.
C21_ResolvedAndSkipped ==
    /\ state = STATE_PLAYING
    /\ ev.snap = 0
    /\ Len(ev.res) = 1
    /\ \E i \in 1..Len(platforms) :
           /\ i # ev.res[1][1]
           /\ colliderect(Player_get_rect(player),
                          Platform_get_rect(platforms[i]))

\* ------------------------------------------------------------- C22

\* C22: an update that finds the actor on the ground, does not make it
\* jump and leaves it on no platform leaves vel_y at 0.1, the fall started
\* by Level.check_collision; an actor in the air that does not rise is
\* lower after the update or has landed, and is never left in the air with
\* vel_y 0 by two updates in a row.
C22_FallStarts ==
    /\ [][IsUpdate /\ player.on_ground /\ ~ev'.jump_held
            /\ ~player'.on_ground => player'.vel_y = fall_epsilon]_vars
    /\ [][IsUpdate /\ ~player.on_ground /\ player.vel_y >= 0 =>
            player'.on_ground \/ player'.y > player.y]_vars
    /\ [][IsUpdate /\ ~player.on_ground /\ player.vel_y = 0 =>
            player'.on_ground \/ player'.vel_y > 0]_vars

\* C22, witness: the actor walked off the end of a generated platform: in
\* the air at the height of the platform, with vel_y 0.1.
C22_WalkedOff ==
    /\ state = STATE_PLAYING
    /\ ~player.on_ground
    /\ ~ev.jump_held
    /\ player.vel_y = fall_epsilon
    /\ player.vel_x > 0
    /\ \E i \in 2..Len(platforms) :
           /\ platforms[i].width = platform_width
           /\ player.y = platforms[i].y - px(player_height) \div 2
           /\ player.x >= platforms[i].x + px(platforms[i].width)
                          + px(player_width) \div 2

\* ------------------------------------------------------------- C23

\* C23: the collision resolution of a PLAYING frame works on the platform
\* list as it is when the frame begins, bridges of earlier frames included:
\* the bridge of the frame is appended after it, at the end of the list,
\* and is in the list the next frame begins with.
C23_BridgeAfterResolution ==
    /\ [][IsUpdate /\ Scripted =>
            LET c == check_collision(Entering, platforms)
            IN  /\ ev'.snap = c.snap
                /\ ev'.res = c.res
                /\ player'.x = c.p.x
                /\ player'.y = c.p.y
                /\ player'.on_ground = c.p.on_ground]_vars
    /\ [][IsUpdate /\ ev'.built > 0 =>
            /\ Len(platforms') = Len(platforms) + 1
            /\ SubSeq(platforms', 1, Len(platforms)) = platforms
            /\ IsBridge(platforms'[Len(platforms')])
            /\ ev'.snap <= Len(platforms)
            /\ \A j \in 1..Len(ev'.res) : ev'.res[j][1] <= Len(platforms)]_vars

\* C23, witness: a frame built a bridge the ground pass would have landed
\* the actor on, and left the actor in the air; the bridge is in the list
\* for the next frame.
C23_BridgeUnseen ==
    /\ state = STATE_PLAYING
    /\ ev.gap
    /\ ev.built = 1
    /\ ev.snap = 0
    /\ ~player.on_ground
    /\ IsBridge(platforms[Len(platforms)])
    /\ ground_test(player, platforms[Len(platforms)])

\* ------------------------------------------------------------- C24

\* tile_count after the tile collection of the coming frame, which picks
\* up the tile i (0: none).
count_after_pickup(i) ==
    IF i = 0 THEN player.tile_count
    ELSE Min2(player.tile_count + 1, max_tiles)

\* C24, as stated: the gap and bridge step of a PLAYING frame comes before
\* the tile pickup of the frame: it works with the tile_count the frame
\* began with, so that a frame begun with no tile in hand builds no bridge.
\* A tile picked up in the frame in which the gap is declared refutes it.
C24_GapBeforePickup ==
    [][IsUpdate =>
         /\ ev'.gap => ev'.tiles_at_gap = player.tile_count
         /\ player.tile_count = 0 => platforms' = platforms]_vars

\* C24, amended: the frame moves the actor by Player.update, resolves the
\* collisions, picks up the tile the actor then overlaps, and only then
\* evaluates the gap, with the tile_count the pickup left: with a tile in
\* hand, the one just picked up included, a bridge is built and the tile
\* spent, with none the actor falls; the finish line is checked on the
\* position the frame ends with.
C24_PickupBeforeGap ==
    [][IsUpdate /\ Scripted =>
         LET c == check_collision(Entering, platforms)
             n == count_after_pickup(ev'.picked)
         IN  /\ player'.x = c.p.x /\ player'.y = c.p.y
             /\ ev'.picked
                  = check_tile_collection(c.p, tiles, hover_at(hover, timer'))
             /\ score' >= score + (IF ev'.picked # 0 THEN 10 ELSE 0)
             /\ ev'.gap => ev'.tiles_at_gap = n
             /\ ev'.gap /\ n > 0 =>
                    /\ Len(platforms') = Len(platforms) + 1
                    /\ player'.tile_count = n - 1
             /\ ev'.gap /\ n = 0 =>
                    /\ platforms' = platforms
                    /\ player'.vel_y = px(fall_velocity)
             /\ ~ev'.gap =>
                    /\ platforms' = platforms
                    /\ player'.tile_count = n
             /\ ev'.finish = check_finish_line(player')]_vars

\* C24, witness: a frame begun with no tile in hand picked up a tile and
\* built a bridge with it.
C24_PaidByPickup ==
    /\ state = STATE_PLAYING
    /\ ev.picked # 0
    /\ ev.gap
    /\ ev.built = 1
    /\ ev.tiles_at_gap = 1
    /\ player.tile_count = 0
    /\ score = 10
    /\ IsBridge(platforms[Len(platforms)])

\* ------------------------------------------------------------- C25

\* C25: a round begins in STARTING with 180 updates to go, at its
\* construction and at a restart; each update of STARTING counts one down
\* and the 180th sets the state to PLAYING; until then no update and no
\* key event changes the player, the level, the score or the timer.
C25_StartingCountdown ==
    /\ [](state = STATE_STARTING =>
            /\ state_timer \in 1..start_frames
            /\ player = NewPlayer(100, SCREEN_HEIGHT - 100)
            /\ score = 0
            /\ timer = 0)
    /\ [](state_timer = 0 => state # STATE_STARTING)
    /\ [][state # STATE_STARTING /\ state' = STATE_STARTING =>
            state_timer' = start_frames]_vars
    /\ [][state = STATE_STARTING =>
            /\ UNCHANGED <<score, timer, player, platforms, tiles,
                           power_ups, hover>>
            /\ state_timer' = state_timer - 1
            /\ state' = IF state_timer = 1 THEN STATE_PLAYING
                        ELSE STATE_STARTING]_vars

\* C25, witness: the round of a restart has just left STARTING: 180
\* updates were counted and no PLAYING frame has run.
C25_CountedDown ==
    /\ state = STATE_PLAYING
    /\ state_timer = 0
    /\ timer = 0
    /\ player = NewPlayer(100, SCREEN_HEIGHT - 100)
    /\ score = 0
    /\ ev # NoEv

\* ------------------------------------------------------------- C26

\* v is 5 * (1 - n / 40) px per frame, times 1.5 with the speed boost b.
is_run_speed(v, n, b) ==
    IF b THEN 2 * (max_tiles * 2) * v = 3 * px(speed) * (max_tiles * 2 - n)
    ELSE (max_tiles * 2) * v = px(speed) * (max_tiles * 2 - n)

\* C26: Player.update with left or right held leaves |vel_x| at
\* 5 * (1 - tile_count / 40), times 1.5 when the speed boost is on at the
\* call, which is at least 2.5 and so above the 0.5 of the gap detection,
\* and with neither held leaves vel_x 0; one more tile makes the speed
\* 0.125 less (0.1875 with the boost), for every tile_count from 0 to 20.
C26_SpeedByTileCount ==
    /\ [](\A k \in AllKeys :
            LET q == Player_update(player, k)
            IN  IF k.left \/ k.right
                THEN /\ is_run_speed(Abs(q.vel_x), player.tile_count,
                                     player.speed_boost)
                     /\ 2 * Abs(q.vel_x) >= px(speed)
                     /\ Abs(q.vel_x) > gap_vel_x
                     /\ (q.vel_x > 0) = k.right
                     /\ q.x = player.x + q.vel_x
                ELSE q.vel_x = 0 /\ q.x = player.x)
    /\ [](\A n \in 0..max_tiles, b \in BOOLEAN :
            LET v(m) == base_speed([player EXCEPT !.tile_count = m,
                                                  !.speed_boost = b])
            IN  /\ is_run_speed(v(n), n, b)
                /\ 2 * v(n) >= px(speed)
                /\ n < max_tiles =>
                     /\ v(n + 1) < v(n)
                     /\ 2 * (v(n) - v(n + 1)) * (max_tiles * 2)
                          = (IF b THEN 3 ELSE 2) * px(speed))
    /\ [][IsUpdate /\ Scripted =>
            /\ IF script_keys.left \/ script_keys.right
               THEN is_run_speed(Abs(Entering.vel_x), player.tile_count,
                                 player.speed_boost)
               ELSE Entering.vel_x = 0
            /\ player'.vel_x \in {Entering.vel_x, 0}]_vars

\* C26, witness: the actor runs with 20 tiles in hand, at 2.5 px per frame.
C26_SlowestRun ==
    /\ state = STATE_PLAYING
    /\ player.tile_count = max_tiles
    /\ ev.picked = 0
    /\ ~ev.gap
    /\ player.vel_x = px(speed) \div 2

\* ------------------------------------------------------------- C27

\* The modifier of the type t and its timer.
modifier_on(p, t) ==
    IF t = "speed" THEN p.speed_boost
    ELSE IF t = "jump" THEN p.jump_boost
    ELSE p.tile_magnet

modifier_timer(p, t) ==
    IF t = "speed" THEN p.speed_boost_timer
    ELSE IF t = "jump" THEN p.jump_boost_timer
    ELSE p.tile_magnet_timer

PowerUpTypes == {"speed", "jump", "magnet"}

\* The coming step collects a power-up of the type t.
Collects(t) ==
    /\ IsUpdate
    /\ ev'.powerup # 0
    /\ power_ups[ev'.powerup].type = t

\* C27: a modifier is on exactly while its timer is above 0.  The update
\* that collects a power-up of its type sets the timer to 300, also when the
\* modifier is on already; every other PLAYING update counts the timer down
\* by one, to 0 at the 300th update after the collection, which turns the
\* modifier off; no other step but the restart changes either.
C27_ModifierWindow ==
    /\ [](\A t \in PowerUpTypes :
            /\ modifier_timer(player, t) \in 0..powerup_frames
            /\ modifier_on(player, t) = (modifier_timer(player, t) > 0))
    /\ [][IsUpdate =>
            \A t \in PowerUpTypes :
                modifier_timer(player', t) =
                    IF Collects(t) THEN powerup_frames
                    ELSE Max2(modifier_timer(player, t) - 1, 0)]_vars
    /\ [][~IsUpdate /\ ~IsRestart =>
            \A t \in PowerUpTypes :
                /\ modifier_timer(player', t) = modifier_timer(player, t)
                /\ modifier_on(player', t) = modifier_on(player, t)]_vars

\* C27, witness: with free keys and key events, the speed boost collected
\* 300 updates ago has run out while the tile magnet, collected later, is
\* still on.
C27_BoostRanOut ==
    /\ state \in {STATE_PLAYING, STATE_PAUSED}
    /\ ~Scripted
    /\ ~player.speed_boost
    /\ player.speed_boost_timer = 0
    /\ player.tile_magnet
    /\ player.tile_magnet_timer \in 1..(powerup_frames - 1)
    /\ \E i \in 1..Len(power_ups) :
           power_ups[i].collected /\ power_ups[i].type = "speed"

\* ------------------------------------------------- generated levels

\* random.randint(80, 150): the limits of the gap drawn for the next platform.
gap_width_min == 80

gap_width_max == 150

\* The draws of Level._generate_level explored: every stream holds values
\* of the range of its call, the limits of the ranges among them.
LevelDraws ==
    [h : {<<100>>, <<200>>, <<150, 100, 200>>},
     g : {<<gap_width_min>>, <<gap_width_max>>,
          <<gap_width_min, gap_width_max, 115>>},
     n : {<<2>>, <<5>>, <<3, 4>>},
     tx : {<<30, 270>>, <<150>>},
     ty : {<<30>>, <<60, 45>>},
     pu : {<<"none">>, <<"jump", "none", "magnet">>},
     px : {<<50>>, <<250, 120>>},
     hover : {4}]

\* A round on each of the levels, walked off the left end of the ground.
InitLevels ==
    \E c \in LevelDraws : InitWith(c, 0, ScriptPlan(FallScript, {}))

\* The rounds on the generated levels.
SpecLevels == InitLevels /\ [][NextScript]_vars

\* The level as Level._generate_level leaves it: nothing touches it before
\* the first PLAYING update.
FreshLevel == state = STATE_STARTING /\ state_timer = start_frames

\* The gap between the i-th platform of the list and the next one, in units.
gap_after(plats, i) == plats[i + 1].x - (plats[i].x + px(plats[i].width))

\* -------------------------------------------------------------- C28

\* The updates a jump is followed for.
MaxFlight == 60

\* Player.update with right held, from the player p in the air until it is
\* back at the height y0 (or lower), for n updates at most.
RECURSIVE flight(_, _, _)
flight(p, y0, n) ==
    IF n = 0 \/ p.y >= y0 THEN p
    ELSE flight(Player_update(p, RightKey), y0, n - 1)

\* The horizontal distance of a jump from rest with right held, from the
\* take-off to the first update that finds the actor back at the height of
\* the take-off: Player.update alone, no platform in the way.
jump_reach ==
    LET p0 == NewPlayer(100, SCREEN_HEIGHT - 100)
        p1 == Player_update(p0, RightJump)
    IN  flight(p1, p0.y, MaxFlight).x - p0.x

\* C28: every gap between two consecutive generated platforms is at most
\* 150 px, and 150 px is less than the horizontal distance of a single jump
\* (take-off to return to the take-off height) with jump_power -15, gravity
\* 0.8 and speed 5 per frame.
C28_GapsBelowJump ==
    /\ FreshLevel =>
         \A i \in 2..(Len(platforms) - 1) :
             gap_after(platforms, i) <= px(gap_width_max)
    /\ px(gap_width_max) < jump_reach

\* A generated level with a gap of 150 px, the jump back at its height.
C28_WidestGap ==
    /\ FreshLevel
    /\ \E i \in 2..(Len(platforms) - 1) :
           gap_after(platforms, i) = px(gap_width_max)
    /\ flight(Player_update(player, RightJump), player.y, MaxFlight).y
           >= player.y

\* -------------------------------------------------------------- C29

\* The tile t (pixels) lies above the platform pl within its span.
tile_above(t, pl) ==
    /\ pl.x <= px(t.x)
    /\ px(t.x) <= pl.x + px(pl.width)
    /\ px(t.y) < pl.y

\* The indices of the tiles of tls above the platform pl.
tiles_above(tls, pl) == {j \in 1..Len(tls) : tile_above(tls[j], pl)}

\* C29: in every generated level the ground platform is first; the other
\* platforms are 300 by 20, the first at x = 500, each next one 300 + gap
\* after the previous with gap in 80..150, all starting before
\* level_width - 500, their tops 100..200 px above the ground top; each
\* carries 2 to 5 tiles, every tile above a platform within its span; the
\* finish marker stands at x = level_width - 300, its bottom on the ground
\* top.
C29_GeneratedLevel ==
    /\ FreshLevel =>
         /\ Len(platforms) >= 2
         /\ platforms[1] = Platform(0, px(ground_height), level_width, 50)
         /\ platforms[2].x = px(500)
         /\ \A i \in 2..Len(platforms) :
              /\ platforms[i].width = 300
              /\ platforms[i].height = 20
              /\ platforms[i].x < px(level_width - 500)
              /\ px(ground_height) - platforms[i].y >= px(100)
              /\ px(ground_height) - platforms[i].y <= px(200)
              /\ Cardinality(tiles_above(tiles, platforms[i])) \in 2..5
         /\ \A i \in 2..(Len(platforms) - 1) :
              /\ gap_after(platforms, i) >= px(gap_width_min)
              /\ gap_after(platforms, i) <= px(gap_width_max)
              /\ platforms[i + 1].x
                     = platforms[i].x + px(300) + gap_after(platforms, i)
         /\ \A j \in 1..Len(tiles) :
              \E i \in 2..Len(platforms) : tile_above(tiles[j], platforms[i])
    /\ finish_line.x = level_width - 300
    /\ finish_line.y + finish_line.height = ground_height

\* A generated level with five tiles on a platform, at both ends of its
\* span, a gap of 80 px and a platform 200 px above the ground.
C29_LevelAtLimits ==
    /\ FreshLevel
    /\ \E i \in 2..(Len(platforms) - 1) :
         /\ Cardinality(tiles_above(tiles, platforms[i])) = 5
         /\ gap_after(platforms, i) = px(gap_width_min)
         /\ px(ground_height) - platforms[i].y = px(200)
         /\ \E j \in tiles_above(tiles, platforms[i]) :
                px(tiles[j].x) = platforms[i].x + px(30)
         /\ \E j \in tiles_above(tiles, platforms[i]) :
                px(tiles[j].x) = platforms[i].x + px(270)

\* -------------------------------------------------------------- C30

\* The size of the maze of GhostChase.reset_round: Maze(12, 12).
maze_size == 12

\* The length of the streams of draws of random.choice explored.
PickLen == 3

\* The draws (x, y) of Maze._create_ghost_paths, taken in turn.
GhostCells ==
    << <<1, 1>>, <<2, 2>>, <<5, 4>>, <<4, 4>>, <<3, 6>>, <<8, 8>>,
       <<10, 10>>, <<6, 2>>, <<2, 2>>, <<9, 3>> >>

\* The random draws of the mazes explored: the start cell in a corner of
\* the grid, every stream of PickLen draws of random.choice (the neighbour
\* at index draw % len), three or six ghost paths.
MazeDraws ==
    [sx : {0, maze_size \div 2 - 1}, sy : {0, maze_size \div 2 - 1},
     pick : [1..PickLen -> 0..3], cells : {GhostCells}, paths : {3, 6}]

\* Game.__init__ of ghost_chase (line 61) calls reset_round, which makes
\* the maze of the first round (line 125).
GhostChase_init ==
    /\ maze = NoMaze
    /\ \E c \in MazeDraws : maze' = Maze(maze_size, maze_size, c)
    /\ UNCHANGED <<state, state_timer, score, timer, high_score, player,
                   platforms, tiles, power_ups, hover, ev, input>>

\* The first round of ghost_chase.
SpecMaze == InitWith(LowLevel, 0, FreePlan({})) /\ [][GhostChase_init]_vars

\* The open cells of m one step in an axis direction from a cell of S.
beside(m, S) ==
    {c \in {<<s[1] + d[1], s[2] + d[2]>> :
                s \in S, d \in {<<0, -1>>, <<1, 0>>, <<0, 1>>, <<-1, 0>>}} :
        /\ in_grid(m.width, m.height, c[1], c[2])
        /\ m.grid[c[2]][c[1]] = 0}

\* The open cells of m reached from the cells S by steps in the four axis
\* directions over open cells.
RECURSIVE open_reach(_, _)
open_reach(m, S) ==
    LET T == S \cup beside(m, S)
    IN  IF T = S THEN S ELSE open_reach(m, T)

\* C30: in every maze the constructor makes, the entrance (1, 1) and the
\* exit (width - 2, height - 2) are open and joined by a path of open
\* cells that moves in the four axis directions.
C30_EntranceReachesExit ==
    maze # NoMaze =>
        /\ maze.grid[1][1] = 0
        /\ maze.grid[maze.height - 2][maze.width - 2] = 0
        /\ <<maze.width - 2, maze.height - 2>>
               \in open_reach(maze, {<<1, 1>>})

\* A maze whose exit is walled in from the left and from above: the path
\* reaches it from the cells of the last row or column.
C30_ExitFromTheRim ==
    /\ maze # NoMaze
    /\ maze.grid[maze.height - 2][maze.width - 3] = 1
    /\ maze.grid[maze.height - 3][maze.width - 2] = 1
    /\ <<maze.width - 2, maze.height - 2>> \in open_reach(maze, {<<1, 1>>})

\* -------------------------------------------------------------- C31

\* C31, as stated: the ground platform stops a falling actor.  While the
\* actor's centre lies within the ground platform's extent (0..level_width)
\* no PLAYING update ends with the actor's bottom edge more than 10 px
\* below the top of the ground platform.  A fall of more than 15 px per
\* frame that steps over the band of the ground pass refutes it: the
\* general pass takes no side while the overlap from the top is the
\* smallest and vel_y > 0.
C31_GroundStops ==
    [][IsUpdate /\ 0 <= player'.x /\ player'.x <= px(level_width) =>
         player'.y + px(player_height) \div 2
             <= platforms'[1].y + px(10)]_vars

\* -------------------------------------------------------------- C32

\* The frames after a bridge an actor is followed for.
MaxSink == 8

\* The actor has fallen freely for k frames since the frame that built the
\* newest platform, a bridge: that frame left it 20 px above the bridge's
\* top edge with a vel_y above 2.0, and gravity alone moved it since.
falling_since_bridge(k) ==
    LET b == platforms[Len(platforms)]
        v0 == player.vel_y - gravity * k
    IN  /\ IsBridge(b)
        /\ ~player.on_ground
        /\ v0 > gap_vel_y
        /\ player.y = (b.y - px(20)) + k * v0 + (gravity * k * (k + 1)) \div 2

\* C32, as stated: one gap costs one tile.  After a bridge is built under
\* the falling actor no further gap is declared, so no second tile is spent
\* and no GAME_OVER is set by a gap, before the actor has come to rest on
\* the bridge.  An actor that keeps right held refutes it: the general pass
\* puts it against the left side of the bridge and then of the platform
\* before the bridge, where the next frame builds a second bridge.
C32_OneTilePerGap ==
    [][IsUpdate /\ (\E k \in 1..MaxSink : falling_since_bridge(k)) =>
         ~ev'.gap]_vars

\* ------------------------------------------------------------- C33

MaxJump == 30

\* The actor is k frames into a jump (Player.jump through the held key in
\* Player.update) that started at rest on the ground platform: it left
\* y = ground top - height/2, was lifted 2 px, and has moved with
\* jump_strength and k - 1 additions of gravity since.
jumped_from_ground(k) ==
    LET rest == platforms[1].y - px(player_height) \div 2
        v0   == jump_strength(player)
    IN  /\ ~player.on_ground
        /\ player.vel_y = v0 + gravity * (k - 1)
        /\ player.y = (rest - px(2)) + k * v0 + (gravity * k * (k - 1)) \div 2

\* C33: an actor that jumps from the ground platform while moving
\* horizontally inside the level with no tile lands again: during the jump,
\* with the ground platform beneath the actor, no gap is declared and the
\* round does not enter GAME_OVER.
C33_JumpOverGround ==
    [][/\ IsUpdate
       /\ player.tile_count = 0
       /\ \E k \in 1..MaxJump : jumped_from_ground(k)
       /\ 0 <= player'.x /\ player'.x <= px(level_width)
       /\ beneath(player', platforms'[1])
       => ~ev'.gap /\ state' # STATE_GAME_OVER]_vars

\* ------------------------------------------------------------- C34

\* The round of every level of LevelDraws with right held on every frame.
InitWalkLevels ==
    \E c \in LevelDraws : InitWith(c, 0, ScriptPlan(WalkScript, {}))

SpecWalkLevels ==
    InitWalkLevels /\ [][NextScript]_vars
        /\ WF_<<state_timer, timer>>(Advance)

\* Frames the actor, placed 20 px above the ground, takes to land on it.
SettleFrames == 7

\* The actor stands on the ground platform.
on_the_ground ==
    /\ player.on_ground
    /\ player.vel_y = 0
    /\ player.y + px(player_height) \div 2 = platforms[1].y

\* The actor's rectangle overlaps no generated platform.
clear_of_platforms ==
    \A i \in 2..Len(platforms) :
        ~colliderect(Player_get_rect(player), Platform_get_rect(platforms[i]))

\* C34: in every generated level the round with right held on every frame
\* and jump never pressed reaches LEVEL_COMPLETE and never enters GAME_OVER:
\* the actor settles on the ground platform and walks along it, overlapping
\* no generated platform and collecting no tile, up to the finish line.
C34_WalkRightFinishes ==
    /\ <>(state = STATE_LEVEL_COMPLETE /\ ev.finish)
    /\ [](state # STATE_GAME_OVER)
    /\ [](state = STATE_PLAYING /\ timer >= SettleFrames => on_the_ground)
    /\ [](clear_of_platforms)
    /\ [](\A i \in 1..Len(platforms) : ~IsBridge(platforms[i]))
    /\ [](player.tile_count = 0 /\ \A j \in 1..Len(tiles) : ~tiles[j].collected)
    /\ [](state # STATE_LEVEL_COMPLETE => score = 0)

\* C34, witness: the round held right reached the finish line of a level
\* with a platform at the lowest height, 100 px above the ground, with
\* every tile of the level still in place and the time bonus as the score.
C34_AcrossUnderPlatforms ==
    /\ state = STATE_LEVEL_COMPLETE
    /\ ev.finish
    /\ player.on_ground
    /\ \E i \in 2..Len(platforms) :
           platforms[i].y = px(ground_height - 100)
    /\ Len(tiles) > 0
    /\ \A j \in 1..Len(tiles) : ~tiles[j].collected
    /\ score = finish_bonus(timer, 0)

\* ------------------------------------------------------------- C35

\* The number of tiles whose collected flag is set.
collected_count(tls) == Cardinality({j \in 1..Len(tls) : tls[j].collected})

bridge_count(plats) ==
    Cardinality({i \in 1..Len(plats) : IsBridge(plats[i])})

\* The tiles flagged collected that are neither in hand nor built into a
\* bridge.
lost_tiles(p, plats, tls) ==
    collected_count(tls) - (p.tile_count + bridge_count(plats))

\* The update collects a tile with max_tiles tiles in hand.
IsCappedPickup ==
    /\ IsUpdate
    /\ ev'.picked # 0
    /\ player.tile_count = max_tiles

\* C36: in every state of a round tile_count plus the number of bridges is
\* at most the number of tiles flagged collected; the two are equal when the
\* round starts and the difference changes only when a tile is collected
\* with tile_count already 20: that tile is flagged and scored, tile_count
\* stays 20.
C36_TilesConserved ==
    /\ [](lost_tiles(player, platforms, tiles) >= 0)
    /\ [](FreshLevel => lost_tiles(player, platforms, tiles) = 0)
    /\ [][~IsRestart /\ ~IsCappedPickup =>
              lost_tiles(player', platforms', tiles')
                  = lost_tiles(player, platforms, tiles)]_vars
    /\ [][IsCappedPickup =>
              /\ tiles'[ev'.picked].collected /\ ~tiles[ev'.picked].collected
              /\ score' >= score + 10
              /\ player'.tile_count
                     = max_tiles - (IF ev'.built # 0 THEN 1 ELSE 0)
              /\ lost_tiles(player', platforms', tiles')
                     = lost_tiles(player, platforms, tiles) + 1]_vars

\* C36, witness: a round that has built bridges and has collected a tile
\* with 20 in hand: more tiles are flagged than are in hand or in bridges.
C36_TileLostAtCap ==
    /\ state = STATE_PLAYING
    /\ bridge_count(platforms) > 0
    /\ lost_tiles(player, platforms, tiles) > 0
    /\ ev.picked # 0

\* ------------------------------------------------------------- C37

\* Platform pl supports the actor p: their horizontal extents overlap and
\* the top edge of the platform is the bottom edge of the actor.
supports(pl, p) ==
    /\ p.x - px(player_width) \div 2 < pl.x + px(pl.width)
    /\ p.x + px(player_width) \div 2 > pl.x
    /\ pl.y = p.y + px(player_height) \div 2

\* C37: at the end of every PLAYING update, if on_ground is true then
\* vel_y = 0 and some platform of the list supports the actor: its
\* horizontal extent overlaps the actor's and its top edge equals the
\* actor's bottom edge.
C37_GroundedSupported ==
    [][IsUpdate /\ player'.on_ground =>
          /\ player'.vel_y = 0
          /\ \E i \in 1..Len(platforms') :
                 supports(platforms'[i], player')]_vars

\* ------------------------------------------------------------- C38

\* The level is one Level() builds: generated, with no bridge.
fresh_level(plats, tls, pus) ==
    /\ \E c \in LevelChoices :
           LET lv == generate_level(c)
           IN  /\ plats = lv.platforms
               /\ tls = lv.tiles
               /\ pus = lv.power_ups
    /\ bridge_count(plats) = 0

\* C38: a jump key pressed in GAME_OVER or LEVEL_COMPLETE restarts the
\* round: afterwards the state is STARTING with a countdown of 180 updates,
\* score and timer are 0, the actor is a new one at the initial position
\* with no tile and no modifier, the level is freshly generated with no
\* bridge, and high_score is the maximum of its previous value and the
\* score of the round that ended.  In every other state no key restarts
\* anything: no step leads to STARTING, resets the score or the timer, or
\* changes high_score.
C38_RestartOnJump ==
    /\ [][IsRestart =>
              /\ state_timer' = start_frames
              /\ score' = 0
              /\ timer' = 0
              /\ player' = NewPlayer(100, SCREEN_HEIGHT - 100)
              /\ player'.tile_count = 0
              /\ ~player'.speed_boost /\ ~player'.jump_boost
              /\ ~player'.tile_magnet
              /\ fresh_level(platforms', tiles', power_ups')
              /\ high_score' = Max2(high_score, score)]_vars
    /\ [][state \notin {STATE_GAME_OVER, STATE_LEVEL_COMPLETE} =>
              /\ state' = STATE_STARTING => state = STATE_STARTING
              /\ score' >= score
              /\ timer' >= timer
              /\ high_score' = high_score]_vars

\* ------------------------------------------------------------- C39

\* The tiles not yet collected that the rectangle of actor p overlaps, the
\* tiles moved by the hover offset hov.
tiles_hit(p, tls, hov) ==
    {j \in 1..Len(tls) :
        /\ ~tls[j].collected
        /\ colliderect(Player_get_rect(p), Tile_get_rect(tls[j], hov))}

\* The power-ups not yet collected that the rectangle of actor p overlaps.
power_ups_hit(p, pus) ==
    {j \in 1..Len(pus) :
        /\ ~pus[j].collected
        /\ colliderect(Player_get_rect(p), PowerUp_get_rect(pus[j]))}

\* The entities whose collected flag the step sets.
newly_collected(old, new) ==
    {j \in 1..Len(old) : ~old[j].collected /\ new[j].collected}

\* The first index of S in list order, as a set: empty when S is.
first_of(S) == {i \in S : \A j \in S : i <= j}

\* C39: one PLAYING update collects at most one tile and at most one
\* power-up, each the first uncollected one in list order that the actor's
\* rectangle overlaps; the other overlapped ones stay uncollected in that
\* frame.  So tile_count rises by at most 1 and the score by at most 10 in
\* a frame, before the finish bonus.
C39_OnePerFrame ==
    [][IsUpdate =>
          LET hov == hover_at(hover, timer')
              T == tiles_hit(player', tiles, hov)
              U == power_ups_hit(player', power_ups)
          IN  /\ newly_collected(tiles, tiles') = first_of(T)
              /\ newly_collected(power_ups, power_ups') = first_of(U)
              /\ Cardinality(newly_collected(tiles, tiles')) <= 1
              /\ Cardinality(newly_collected(power_ups, power_ups')) <= 1
              /\ player'.tile_count <= player.tile_count + 1
              /\ score' <= score + 10
                   + (IF ev'.finish
                      THEN finish_bonus(timer', player'.tile_count)
                      ELSE 0)]_vars

\* C39, witness: the update collected a tile while the actor overlapped a
\* second uncollected tile, later in the list, which stays in place.
C39_SecondTileLeft ==
    /\ state = STATE_PLAYING
    /\ ev.picked # 0
    /\ \E j \in tiles_hit(player, tiles, hover_at(hover, timer)) :
           j > ev.picked

====
